---- MODULE Spec2Model ----
(***************************************************************************)
(* Model of the CAPES search-result extraction and export engine:          *)
(*   - SearchCollection            (internal/result, SearchCollection)     *)
(*   - CAPESResultExtractor        (Process, extractResultsFromCurrentPage,*)
(*                                  goToNextPage)                          *)
(*   - MainResultProcessor         (ProcessAndExport)                      *)
(*   - CSVWriter                   (Initialize, WriteHeader, WriteResult,  *)
(*                                  WriteResults, WriteCollection, Close)  *)
(*                                                                         *)
(* Specifications:                                                         *)
(*   Spec      one run of ProcessAndExport (Process + CSV export)          *)
(*   SpecColl  arbitrary sequences of AddResult / AddResults /             *)
(*             UpdatePageCount on a fresh SearchCollection                 *)
(*   SpecBound the page-bound computation of Process as a pure function    *)
(*   SpecNext  one call of goToNextPage                                    *)
(*   SpecPage  one call of extractResultsFromCurrentPage, detail sessions  *)
(*             step by step                                                *)
(*   SpecWriter any sequence of calls on one CSVWriter                     *)
(*   SpecID, SpecAbs, SpecURL  extractIDFromURL, absoluteURL and           *)
(*             buildPageURL as functions of their string inputs            *)
(*   SpecRun   run() of main: the primary RodBrowser over one run           *)
(*   SpecEstimate  the total-page estimation of Process on the text of the *)
(*             result-count label                                          *)
(***************************************************************************)
EXTENDS Integers, Sequences, FiniteSets, TLC

(***************************************************************************)
(* Bounds of the model                                                     *)
(***************************************************************************)
\* largest number of result anchors a listing page shows in the model
MaxAnchors == 2
\* largest number of records collected in one run
MaxRecords == 4
\* largest value of the -max-pages option in a run
MaxCap == 2
\* longest Results sequence built in SpecColl
MaxLen == 4
\* largest estimated total in SpecBound
MaxTotal == 3016
\* largest -max-pages value in SpecBound
MaxBoundCap == 6
\* largest RetryAttempts option in SpecNext
MaxRetryOpt == 4
\* most calls made on one CSVWriter in SpecWriter
MaxCalls == 4
\* most result anchors on the listing page of SpecPage
MaxLinks == 3
\* longest URL handed to extractIDFromURL in SpecID, in characters
MaxIdUrlLen == 6
\* longest href handed to absoluteURL in SpecAbs, in characters
MaxHrefLen == 5
\* longest encoded search term in SpecURL, in symbols
MaxTermLen == 2
\* largest page number in SpecURL
MaxPageNo == 12
\* largest page bound of a run in SpecRun
MaxRunPages == 3
\* longest text of the result-count label in SpecEstimate, in symbols
MaxLabelLen == 4

(***************************************************************************)
(* Program constants                                                       *)
(***************************************************************************)
ResultsPerPage == 30
DefaultTotalResults == 100
DefaultMaxRetries == 3
DefaultBaseTimeout == 20
TimeoutIncrement == 5

VARIABLES
    pc,                 \* position of the run (ProcessAndExport / Process)
    MaxPagesOpt,        \* options.MaxPages
    PageDelayOpt,       \* options.PageDelay > 0
    outputFile,         \* searchParams.OutputFile != ""
    ctxDone,            \* the context of Process is done
    collection,         \* e.collection
    maxPagesToProcess,  \* local of Process
    currentPage,        \* loop variable of Process
    links,              \* len(links) of the page being extracted
    results,            \* local slice of extractResultsFromCurrentPage
    primaryLive,        \* a primary browser session is open
    ret,                \* what Process returned: [coll, err]
    peRet,              \* what ProcessAndExport returned
    pending,            \* error ProcessAndExport is returning while defers run
    writer,             \* CSVWriter: [init, headerWritten, rowCount, fileOpen, err]
    sink,               \* rows the export file received, in order
    wi,                 \* rows of the collection handed to WriteResult so far
    closeErr,           \* what the deferred writer.Close() returned (logged)
    pageLog,            \* history: <<page, anchors found>> per extracted page (-1: error)
    produced,           \* history: records returned by the page extractor
    openTried,          \* history: page indices whose Open was attempted
    openFailedAt,       \* history: page index whose Open failed, 0 if none
    ioFailed,           \* history: an I/O operation of the export failed
    totalResults,       \* local of Process: estimated total
    g,                  \* goToNextPage: its locals, options and history
    IncludeHeadersOpt,  \* params.IncludeHeaders (false with -no-headers)
    exportConfig,       \* ExportConfig handed to the writer: [IncludeHeader]
    cancelledOn,        \* history: page in flight when the context became done
    wLog,               \* history: calls made on a CSVWriter: [op, ret, rows]
    detailLive,         \* number of live detail browser sessions
    detail,             \* extractMetadataForResult: locals of the running call
    fn,                 \* a pure function under study: its inputs and result
    browser,            \* the RodBrowser of run(): its fields, processes and calls
    sleepLog,           \* history: pages after which Process slept PageDelay
    params              \* the SearchParams of run(): config.SetupFlags' result

vars == <<pc, MaxPagesOpt, PageDelayOpt, outputFile, ctxDone, collection,
          maxPagesToProcess, currentPage, links, results, primaryLive, ret,
          peRet, pending, writer, sink, wi, closeErr, pageLog, produced, openTried,
          openFailedAt, ioFailed,
          totalResults, g, IncludeHeadersOpt, exportConfig, cancelledOn,
          wLog, detailLive, detail, fn, browser, sleepLog, params>>

(***************************************************************************)
(* SearchCollection  (internal/result)                                     *)
(***************************************************************************)
NewSearchCollection == [Results |-> <<>>, TotalPages |-> 0, TotalResults |-> 0]

AddResult(c, r) ==
    LET rs == Append(c.Results, r)
    IN  [c EXCEPT !.Results = rs, !.TotalResults = Len(rs)]

\* AddResults that appends without refreshing the count
AddResults_StaleCount(c, new) ==
    [c EXCEPT !.Results = c.Results \o new]

AddResults(c, new) ==
    LET rs == c.Results \o new
    IN  [c EXCEPT !.Results = rs, !.TotalResults = Len(rs)]

\* an UpdatePageCount that counts a page only when one of its records is stored
UpdatePageCount_FromRecords(c, pageCount) ==
    IF pageCount > c.TotalPages
       /\ \E i \in DOMAIN c.Results : c.Results[i].PageFound = pageCount
    THEN [c EXCEPT !.TotalPages = pageCount]
    ELSE c

\* UpdatePageCount: raise TotalPages to pageCount, never lower it
UpdatePageCount(c, pageCount) ==
    IF pageCount > c.TotalPages THEN [c EXCEPT !.TotalPages = pageCount] ELSE c

(***************************************************************************)
(* Page bound of Process                                                   *)
(***************************************************************************)
\* page count by truncating division
TotalPagesOf_Floor(total) == total \div ResultsPerPage

\* totalPages := (totalResults + ResultsPerPage - 1) / ResultsPerPage
TotalPagesOf(total) == (total + ResultsPerPage - 1) \div ResultsPerPage

\* a bound that is never below one page
MaxPagesToProcess_AtLeastOne(total, maxPages) ==
    IF maxPages > 0 /\ maxPages < TotalPagesOf(total)
    THEN maxPages
    ELSE IF TotalPagesOf(total) = 0 THEN 1 ELSE TotalPagesOf(total)

\* maxPagesToProcess
MaxPagesToProcess(total, maxPages) ==
    IF maxPages > 0 /\ maxPages < TotalPagesOf(total)
    THEN maxPages
    ELSE TotalPagesOf(total)

\* extractTotalResults, with the fallback of Process for a missing label
\* result counts the label shows in a run
EstimateCounts == {0, 1, ResultsPerPage, ResultsPerPage + 1}

\* what the result-count label can be: absent, not "<n> resultados", or a count
EstimateOutcomes ==
    {[kind |-> "missing", n |-> 0], [kind |-> "unparsable", n |-> 0]}
    \cup {[kind |-> "count", n |-> k] : k \in EstimateCounts}

\* an estimate that counts no results when the label cannot be used
ExtractTotalResults_ZeroOnFailure(o) ==
    IF o.kind = "count" THEN o.n ELSE 0

ExtractTotalResults(o) ==
    IF o.kind = "missing" THEN DefaultTotalResults
    ELSE IF o.kind = "unparsable" THEN DefaultTotalResults
    ELSE o.n

(***************************************************************************)
(* Page Extractor / Detail Enricher                                        *)
(***************************************************************************)
\* identity of the i-th anchor of listing page p (stands for its text and href)
AnchorId(p, i) == <<p, i>>

\* most anchors the next listing page shows, given the records collected so far
AnchorLimit(c) ==
    IF MaxRecords - Len(c.Results) < MaxAnchors
    THEN MaxRecords - Len(c.Results)
    ELSE MaxAnchors

EnrichOutcomes == {"ok", "fail"}

\* extractMetadataForResult: (author, year); a field that was not obtained is ""
Metadata(o) == [Author |-> IF o \in {"ok", "author_only"} THEN "A" ELSE "",
                Year   |-> IF o \in {"ok", "year_only"} THEN "Y" ELSE ""]

\* a SearchResult whose Position is the 0-based loop index
MakeResult_ZeroBased(pageNum, i, o) ==
    [Title     |-> AnchorId(pageNum, i + 1),
     URL       |-> AnchorId(pageNum, i + 1),
     ID        |-> AnchorId(pageNum, i + 1),
     Source    |-> "CAPES",
     PageFound |-> pageNum,
     Position  |-> i,
     Author    |-> Metadata(o).Author,
     Year      |-> Metadata(o).Year]

\* the SearchResult built for link i (0-based) of page pageNum
MakeResult(pageNum, i, o) ==
    [Title     |-> AnchorId(pageNum, i + 1),
     URL       |-> AnchorId(pageNum, i + 1),
     ID        |-> AnchorId(pageNum, i + 1),
     Source    |-> "CAPES",
     PageFound |-> pageNum,
     Position  |-> i + 1,
     Author    |-> Metadata(o).Author,
     Year      |-> Metadata(o).Year]

(***************************************************************************)
(* CSVWriter                                                               *)
(***************************************************************************)
NoWriter == [init |-> FALSE, headerWritten |-> FALSE, rowCount |-> 0,
             fileOpen |-> FALSE, err |-> FALSE]

\* the row WriteHeader writes (CSVHeader)
HeaderRow == [kind |-> "header", cols |-> <<"Titulo", "Autor", "Ano", "Link de acesso">>]

\* the row WriteResult writes for r
RowOf(r) == [kind |-> "record", cols |-> <<r.Title, r.Author, r.Year, r.URL>>]

(***************************************************************************)
(* Idle values of the parts a specification does not use                   *)
(***************************************************************************)
NoRet == [coll |-> "none", err |-> "none"]

GIdle == [pc |-> "idle", RetryAttempts |-> 0, NavigationTimeout |-> 0,
          PageTimeout |-> 0, maxRetries |-> 0, baseTimeout |-> 0, attempt |-> 0,
          clicks |-> 0, sleeps |-> 0, scrollWarn |-> FALSE, hist |-> <<>>,
          navTimeouts |-> <<>>, ret |-> "none"]

\* DefaultCSVConfig: the header row is included
DefaultCSVConfig == [IncludeHeader |-> TRUE]

\* no page was in flight when the context became done (or it is not done)
NotCancelled == 0

DetailIdle == [open |-> "none", marker |-> "none", author |-> "", year |-> "",
               hist |-> <<>>]

FnIdle == [name |-> "none"]

BrowserIdle == [obj |-> "none"]

\* no SearchParams is followed
NoParams == [obj |-> "none"]

SessIdle == browser = BrowserIdle /\ sleepLog = <<>>

AuxIdle ==
    /\ wLog = <<>> /\ detailLive = 0 /\ detail = DetailIdle /\ SessIdle /\ fn = FnIdle /\ params = NoParams

RunIdle ==
    /\ MaxPagesOpt = 0 /\ PageDelayOpt = FALSE /\ outputFile = FALSE
    /\ IncludeHeadersOpt = TRUE /\ exportConfig = DefaultCSVConfig
    /\ ctxDone = FALSE /\ cancelledOn = NotCancelled
    /\ AuxIdle
    /\ maxPagesToProcess = 0 /\ currentPage = 0 /\ links = 0
    /\ results = <<>> /\ primaryLive = FALSE /\ ret = NoRet
    /\ peRet = "none" /\ pending = "none" /\ writer = NoWriter
    /\ sink = <<>> /\ wi = 0 /\ closeErr = "none" /\ pageLog = <<>> /\ produced = <<>>
    /\ openTried = {} /\ openFailedAt = 0 /\ ioFailed = FALSE /\ totalResults = 0

procVars == <<maxPagesToProcess, currentPage, links, results, totalResults>>
optVars == <<MaxPagesOpt, PageDelayOpt, outputFile, IncludeHeadersOpt, params>>
exportVars == <<peRet, pending, writer, sink, wi, closeErr, ioFailed, exportConfig>>
sessVars == <<browser, sleepLog>>
auxVars == <<wLog, detailLive, detail, fn, sessVars>>
histVars == <<pageLog, produced, openTried, openFailedAt>>

(***************************************************************************)
(* Spec: one run of ProcessAndExport                                       *)
(***************************************************************************)
Init ==
    /\ pc = "start"
    /\ MaxPagesOpt \in 0..MaxCap
    /\ PageDelayOpt \in BOOLEAN
    /\ outputFile \in BOOLEAN
    /\ IncludeHeadersOpt \in BOOLEAN
    /\ exportConfig = DefaultCSVConfig
    /\ ctxDone = FALSE /\ cancelledOn = NotCancelled
    /\ AuxIdle
    /\ collection = NewSearchCollection
    /\ maxPagesToProcess = 0 /\ currentPage = 0 /\ links = 0
    /\ results = <<>> /\ primaryLive = FALSE /\ ret = NoRet
    /\ peRet = "none" /\ pending = "none" /\ writer = NoWriter
    /\ sink = <<>> /\ wi = 0 /\ closeErr = "none" /\ pageLog = <<>> /\ produced = <<>>
    /\ openTried = {} /\ openFailedAt = 0 /\ ioFailed = FALSE /\ totalResults = 0
    /\ g = GIdle

\* positions at which Process is running
ProcessPcs == {"open_initial", "estimate", "loop_top", "close_prev",
               "open_page", "extract", "enrich", "add_results",
               "update_page_count", "delay"}

\* positions between the extraction of a page and its UpdatePageCount
InFlightPcs == {"extract", "enrich", "add_results", "update_page_count"}

\* the operation timeout (options.Timeout > 0) fires
CtxExpire ==
    /\ pc \in ProcessPcs
    /\ ~ctxDone
    /\ ctxDone' = TRUE
    /\ cancelledOn' = IF pc \in InFlightPcs THEN currentPage ELSE NotCancelled
    /\ UNCHANGED <<pc, collection, primaryLive, ret, g>>
    /\ UNCHANGED <<procVars, optVars, auxVars, exportVars, histVars>>

\* ProcessAndExport calls Process: e.collection = NewSearchCollection(...)
ProcessStart ==
    /\ pc = "start"
    /\ collection' = NewSearchCollection
    /\ pc' = "open_initial"
    /\ UNCHANGED <<ctxDone, cancelledOn, primaryLive, ret, g>>
    /\ UNCHANGED <<procVars, optVars, auxVars, exportVars, histVars>>

\* what Process returns
ReturnFrom(c, e) == [coll |-> c, err |-> e]

\* e.browser.Open(searchURL)
OpenInitial ==
    /\ pc = "open_initial"
    /\ openTried' = openTried \cup {1}
    /\ \E ok \in BOOLEAN :
         IF ok
         THEN /\ primaryLive' = TRUE
              /\ pc' = "estimate"
              /\ ret' = ret
         ELSE /\ primaryLive' = FALSE
              /\ pc' = "proc_ret"
              /\ ret' = ReturnFrom("nil", "browser")
    /\ openFailedAt' = IF pc' = "proc_ret" THEN 1 ELSE 0
    /\ UNCHANGED <<ctxDone, cancelledOn, collection, g, pageLog, produced>>
    /\ UNCHANGED <<procVars, optVars, auxVars, exportVars>>

\* extractTotalResults and the computation of maxPagesToProcess
Estimate ==
    /\ pc = "estimate"
    /\ \E o \in EstimateOutcomes :
         /\ totalResults' = ExtractTotalResults(o)
         /\ maxPagesToProcess' = MaxPagesToProcess(ExtractTotalResults(o), MaxPagesOpt)
    /\ currentPage' = 1
    /\ pc' = "loop_top"
    /\ UNCHANGED <<ctxDone, cancelledOn, collection, primaryLive, ret, g, links, results>>
    /\ UNCHANGED <<optVars, auxVars, exportVars, histVars>>

\* a page loop whose cancellation branch returns no collection
LoopTop_NilOnCancel ==
    /\ pc = "loop_top"
    /\ IF currentPage > maxPagesToProcess
       THEN /\ pc' = "proc_ret"
            /\ ret' = ReturnFrom("collection", "none")
       ELSE IF ctxDone
       THEN /\ pc' = "proc_ret"
            /\ ret' = ReturnFrom("nil", "ctx")
       ELSE /\ pc' = IF currentPage > 1 THEN "close_prev" ELSE "extract"
            /\ ret' = ret
    /\ UNCHANGED <<ctxDone, cancelledOn, collection, primaryLive, g>>
    /\ UNCHANGED <<procVars, optVars, auxVars, exportVars, histVars>>

\* loop condition and the select on ctx.Done() at the top of the page loop
LoopTop ==
    /\ pc = "loop_top"
    /\ IF currentPage > maxPagesToProcess
       THEN /\ pc' = "proc_ret"
            /\ ret' = ReturnFrom("collection", "none")
       ELSE IF ctxDone
       THEN /\ pc' = "proc_ret"
            /\ ret' = ReturnFrom("collection", "ctx")
       ELSE /\ pc' = IF currentPage > 1 THEN "close_prev" ELSE "extract"
            /\ ret' = ret
    /\ UNCHANGED <<ctxDone, cancelledOn, collection, primaryLive, g>>
    /\ UNCHANGED <<procVars, optVars, auxVars, exportVars, histVars>>

\* e.browser.Close() of the previous page's session (its error is only logged)
ClosePrev ==
    /\ pc = "close_prev"
    /\ primaryLive' = FALSE
    /\ pc' = "open_page"
    /\ UNCHANGED <<ctxDone, cancelledOn, collection, ret, g>>
    /\ UNCHANGED <<procVars, optVars, auxVars, exportVars, histVars>>

\* an Open failure that skips the page and goes on with the next index
OpenPage_Continue ==
    /\ pc = "open_page"
    /\ openTried' = openTried \cup {currentPage}
    /\ \E ok \in BOOLEAN :
         IF ok
         THEN /\ primaryLive' = TRUE
              /\ pc' = "extract"
              /\ currentPage' = currentPage
              /\ openFailedAt' = openFailedAt
         ELSE /\ primaryLive' = FALSE
              /\ pc' = "loop_top"
              /\ currentPage' = currentPage + 1
              /\ openFailedAt' = currentPage
    /\ UNCHANGED <<ctxDone, cancelledOn, collection, ret, g, pageLog, produced>>
    /\ UNCHANGED <<maxPagesToProcess, links, results, totalResults>>
    /\ UNCHANGED <<optVars, auxVars, exportVars>>

\* e.browser.Open(pageURL); a failure leaves the loop (break)
OpenPage ==
    /\ pc = "open_page"
    /\ openTried' = openTried \cup {currentPage}
    /\ \E ok \in BOOLEAN :
         IF ok
         THEN /\ primaryLive' = TRUE
              /\ pc' = "extract"
              /\ ret' = ret
              /\ openFailedAt' = openFailedAt
         ELSE /\ primaryLive' = FALSE
              /\ pc' = "proc_ret"
              /\ ret' = ReturnFrom("collection", "none")
              /\ openFailedAt' = currentPage
    /\ UNCHANGED <<ctxDone, cancelledOn, collection, g, pageLog, produced>>
    /\ UNCHANGED <<procVars, optVars, auxVars, exportVars>>

\* a page loop that ends the run at the first page without anchors
ExtractLinks_StopOnEmpty ==
    /\ pc = "extract"
    /\ \E n \in -1..AnchorLimit(collection) :
         /\ links' = IF n < 0 THEN 0 ELSE n
         /\ pageLog' = Append(pageLog, <<currentPage, n>>)
         /\ pc' = IF n < 0 THEN "update_page_count"
                  ELSE IF n = 0 THEN "proc_ret"
                  ELSE "enrich"
         /\ ret' = IF n = 0 THEN ReturnFrom("collection", "none") ELSE ret
    /\ results' = <<>>
    /\ UNCHANGED <<ctxDone, cancelledOn, collection, primaryLive, g, produced, openTried, openFailedAt>>
    /\ UNCHANGED <<maxPagesToProcess, currentPage, totalResults>>
    /\ UNCHANGED <<optVars, auxVars, exportVars>>

\* extractResultsFromCurrentPage: e.browser.ExtractLinks(ResultLinkSelector)
\* n = -1 stands for an error of ExtractLinks
ExtractLinks ==
    /\ pc = "extract"
    /\ \E n \in -1..AnchorLimit(collection) :
         /\ links' = IF n < 0 THEN 0 ELSE n
         /\ pageLog' = Append(pageLog, <<currentPage, n>>)
         /\ pc' = IF n < 0 THEN "update_page_count"
                  ELSE IF n = 0 THEN "add_results"
                  ELSE "enrich"
    /\ results' = <<>>
    /\ UNCHANGED <<ctxDone, cancelledOn, collection, primaryLive, ret, g, produced, openTried, openFailedAt>>
    /\ UNCHANGED <<maxPagesToProcess, currentPage, totalResults>>
    /\ UNCHANGED <<optVars, auxVars, exportVars>>

\* an enrichment loop that gives up with the context's error once it is done
EnrichOne_CancelAware ==
    /\ pc = "enrich"
    /\ Len(results) < links
    /\ IF ctxDone
       THEN /\ results' = results
            /\ pc' = "proc_ret"
            /\ ret' = ReturnFrom("collection", "ctx")
            /\ produced' = produced
       ELSE /\ \E o \in EnrichOutcomes :
                 results' = Append(results, MakeResult(currentPage, Len(results), o))
            /\ pc' = IF Len(results) + 1 = links THEN "add_results" ELSE "enrich"
            /\ ret' = ret
            /\ produced' = IF Len(results) + 1 = links THEN produced \o results' ELSE produced
    /\ UNCHANGED <<ctxDone, cancelledOn, collection, primaryLive, g, pageLog, openTried, openFailedAt>>
    /\ UNCHANGED <<maxPagesToProcess, currentPage, links, totalResults>>
    /\ UNCHANGED <<optVars, auxVars, exportVars>>

\* one iteration of the loop over links: build the result, enrich it, append
EnrichOne ==
    /\ pc = "enrich"
    /\ Len(results) < links
    /\ \E o \in EnrichOutcomes :
         results' = Append(results, MakeResult(currentPage, Len(results), o))
    /\ pc' = IF Len(results) + 1 = links THEN "add_results" ELSE "enrich"
    /\ produced' = IF Len(results) + 1 = links THEN produced \o results' ELSE produced
    /\ UNCHANGED <<ctxDone, cancelledOn, collection, primaryLive, ret, g, pageLog, openTried, openFailedAt>>
    /\ UNCHANGED <<maxPagesToProcess, currentPage, links, totalResults>>
    /\ UNCHANGED <<optVars, auxVars, exportVars>>

\* a page loop that keeps only the records of the latest page
AddPageResults_Replace ==
    /\ pc = "add_results"
    /\ collection' = AddResults([collection EXCEPT !.Results = <<>>], results)
    /\ pc' = "update_page_count"
    /\ UNCHANGED <<ctxDone, cancelledOn, primaryLive, ret, g>>
    /\ UNCHANGED <<procVars, optVars, auxVars, exportVars, histVars>>

\* e.collection.AddResults(results)
AddPageResults ==
    /\ pc = "add_results"
    /\ collection' = AddResults(collection, results)
    /\ pc' = "update_page_count"
    /\ UNCHANGED <<ctxDone, cancelledOn, primaryLive, ret, g>>
    /\ UNCHANGED <<procVars, optVars, auxVars, exportVars, histVars>>

\* a page loop that sleeps after every page, the last one included
UpdatePage_DelayAfterLast ==
    /\ pc = "update_page_count"
    /\ collection' = UpdatePageCount(collection, currentPage)
    /\ IF PageDelayOpt
       THEN /\ pc' = "delay"
            /\ currentPage' = currentPage
       ELSE /\ pc' = "loop_top"
            /\ currentPage' = currentPage + 1
    /\ UNCHANGED <<ctxDone, cancelledOn, primaryLive, ret, g>>
    /\ UNCHANGED <<maxPagesToProcess, links, results, totalResults>>
    /\ UNCHANGED <<optVars, auxVars, exportVars, histVars>>

\* e.collection.UpdatePageCount(currentPage), then the delay test and currentPage++
UpdatePage ==
    /\ pc = "update_page_count"
    /\ collection' = UpdatePageCount(collection, currentPage)
    /\ IF currentPage < maxPagesToProcess /\ PageDelayOpt
       THEN /\ pc' = "delay"
            /\ currentPage' = currentPage
       ELSE /\ pc' = "loop_top"
            /\ currentPage' = currentPage + 1
    /\ UNCHANGED <<ctxDone, cancelledOn, primaryLive, ret, g>>
    /\ UNCHANGED <<maxPagesToProcess, links, results, totalResults>>
    /\ UNCHANGED <<optVars, auxVars, exportVars, histVars>>

\* time.Sleep(e.options.PageDelay), then currentPage++
Sleep ==
    /\ pc = "delay"
    /\ sleepLog' = Append(sleepLog, currentPage)
    /\ pc' = "loop_top"
    /\ currentPage' = currentPage + 1
    /\ UNCHANGED <<ctxDone, cancelledOn, collection, primaryLive, ret, g>>
    /\ UNCHANGED <<maxPagesToProcess, links, results, totalResults>>
    /\ UNCHANGED <<wLog, detailLive, detail, fn, browser>>
    /\ UNCHANGED <<optVars, exportVars, histVars>>

(***************************************************************************)
(* ProcessAndExport after Process has returned                             *)
(***************************************************************************)
\* if err != nil { return NewBrowserError(...) }; if OutputFile != "" {...}
AfterProcess ==
    /\ pc = "proc_ret"
    /\ IF ret.err # "none"
       THEN /\ peRet' = "Browser"
            /\ pc' = "done"
       ELSE IF ~outputFile
       THEN /\ peRet' = "nil"
            /\ pc' = "done"
       ELSE /\ peRet' = peRet
            /\ pc' = "new_writer"
    /\ UNCHANGED <<ctxDone, cancelledOn, collection, primaryLive, ret, g, exportConfig, pending, writer, sink, wi, closeErr, ioFailed>>
    /\ UNCHANGED <<procVars, optVars, auxVars, histVars>>

\* the ExportConfig ProcessAndExport builds: IncludeHeader is the literal true,
\* whatever params.IncludeHeaders says
ExportConfigOf(includeHeaders) == [IncludeHeader |-> TRUE]

\* NewWriter(exportConfig, p.log): FormatCSV and a non-empty path never fail
NewWriter ==
    /\ pc = "new_writer"
    /\ exportConfig' = ExportConfigOf(IncludeHeadersOpt)
    /\ writer' = NoWriter
    /\ pc' = "initialize"
    /\ UNCHANGED <<ctxDone, cancelledOn, collection, primaryLive, ret, g, peRet, pending, sink, wi, closeErr, ioFailed>>
    /\ UNCHANGED <<procVars, optVars, auxVars, histVars>>

InitializeOutcomes == {"ok", "mkdir_fail", "create_fail", "header_write_fail",
                       "header_flush_fail"}

\* a WriteHeader that does not remember it wrote the header
WriteHeader_NoFlag(w, o) ==
    IF w.headerWritten THEN w
    ELSE IF o = "header_write_fail" THEN [w EXCEPT !.err = TRUE]
    ELSE IF o = "header_flush_fail" THEN [w EXCEPT !.err = TRUE]
    ELSE w

\* CSVWriter.WriteHeader on an initialized writer; o is the I/O outcome
WriteHeader(w, o) ==
    IF w.headerWritten THEN w
    ELSE IF o = "header_write_fail" THEN [w EXCEPT !.err = TRUE]
    ELSE IF o = "header_flush_fail" THEN [w EXCEPT !.headerWritten = TRUE, !.err = TRUE]
    ELSE [w EXCEPT !.headerWritten = TRUE]

\* a WriteHeader that writes no row
HeaderRows_None(w, o) == <<>>

\* rows WriteHeader puts in the file
HeaderRows(w, o) ==
    IF ~w.headerWritten /\ o = "ok" THEN <<HeaderRow>> ELSE <<>>

\* I/O outcomes Initialize can meet under a configuration
InitOutcomesOf(cfg) ==
    IF cfg.IncludeHeader THEN InitializeOutcomes
    ELSE {"ok", "mkdir_fail", "create_fail"}

\* the file and the csv writer once os.Create succeeded
Opened(w) == [w EXCEPT !.init = TRUE, !.fileOpen = TRUE]

\* CSVWriter.Initialize: the writer it leaves
InitializeWriter(w, cfg, o) ==
    IF o \in {"mkdir_fail", "create_fail"} THEN w
    ELSE IF cfg.IncludeHeader THEN WriteHeader(Opened(w), o)
    ELSE Opened(w)

\* CSVWriter.Initialize: the rows it puts in the file
InitializeRows(w, cfg, o) ==
    IF o \in {"mkdir_fail", "create_fail"} THEN <<>>
    ELSE IF cfg.IncludeHeader THEN HeaderRows(Opened(w), o)
    ELSE <<>>

\* what WriteHeader returns on an initialized writer
WriteHeaderReturn(w, o) ==
    IF w.headerWritten THEN "nil"
    ELSE IF o = "header_write_fail" THEN "External"
    ELSE IF o = "header_flush_fail" THEN "io"
    ELSE "nil"

\* CSVWriter.Initialize: what it returns
InitializeReturn(w, cfg, o) ==
    IF o \in {"mkdir_fail", "create_fail"} THEN "Config"
    ELSE IF cfg.IncludeHeader THEN WriteHeaderReturn(Opened(w), o)
    ELSE "nil"

\* writer.Initialize() and the error test after it
Initialize ==
    /\ pc = "initialize"
    /\ \E o \in InitOutcomesOf(exportConfig) :
       /\ ioFailed' = (o # "ok")
       /\ writer' = InitializeWriter(writer, exportConfig, o)
       /\ sink' = sink \o InitializeRows(writer, exportConfig, o)
       /\ IF InitializeReturn(writer, exportConfig, o) = "nil"
          THEN /\ peRet' = peRet
               /\ pc' = "write"
          ELSE /\ peRet' = "Config"
               /\ pc' = "done"
    /\ wi' = 0
    /\ UNCHANGED <<ctxDone, cancelledOn, collection, primaryLive, ret, g, exportConfig, pending, closeErr>>
    /\ UNCHANGED <<procVars, optVars, auxVars, histVars>>

\* a WriteResults that ranges over the records from the last to the first
WriteResult_Backwards ==
    /\ pc = "write"
    /\ wi < Len(collection.Results)
    /\ \E ok \in BOOLEAN :
       /\ ioFailed' = ~ok
       /\ IF ok
         THEN /\ sink' = Append(sink, RowOf(collection.Results[Len(collection.Results) - wi]))
              /\ writer' = [writer EXCEPT !.rowCount = @ + 1]
              /\ wi' = wi + 1
              /\ pending' = pending
              /\ pc' = "write"
         ELSE /\ sink' = sink
              /\ writer' = [writer EXCEPT !.err = TRUE]
              /\ wi' = wi
              /\ pending' = "External"
              /\ pc' = "close"
    /\ UNCHANGED <<ctxDone, cancelledOn, collection, primaryLive, ret, g, exportConfig, peRet, closeErr>>
    /\ UNCHANGED <<procVars, optVars, auxVars, histVars>>

\* WriteCollection -> WriteResults: one WriteResult of the range loop
WriteResult ==
    /\ pc = "write"
    /\ wi < Len(collection.Results)
    /\ \E ok \in BOOLEAN :
       /\ ioFailed' = ~ok
       /\ IF ok
         THEN /\ sink' = Append(sink, RowOf(collection.Results[wi + 1]))
              /\ writer' = [writer EXCEPT !.rowCount = @ + 1]
              /\ wi' = wi + 1
              /\ pending' = pending
              /\ pc' = "write"
         ELSE /\ sink' = sink
              /\ writer' = [writer EXCEPT !.err = TRUE]
              /\ wi' = wi
              /\ pending' = "External"
              /\ pc' = "close"
    /\ UNCHANGED <<ctxDone, cancelledOn, collection, primaryLive, ret, g, exportConfig, peRet, closeErr>>
    /\ UNCHANGED <<procVars, optVars, auxVars, histVars>>

\* end of WriteResults: w.writer.Flush(); return w.writer.Error()
FlushResults ==
    /\ pc = "write"
    /\ wi = Len(collection.Results)
    /\ \E ok \in BOOLEAN :
       /\ ioFailed' = ~ok
       /\ IF ok
         THEN /\ writer' = writer
              /\ pending' = "nil"
         ELSE /\ writer' = [writer EXCEPT !.err = TRUE]
              /\ pending' = "External"
    /\ pc' = "close"
    /\ UNCHANGED <<ctxDone, cancelledOn, collection, primaryLive, ret, g, exportConfig, peRet, sink, wi, closeErr>>
    /\ UNCHANGED <<procVars, optVars, auxVars, histVars>>

\* CSVWriter.Close: flush, writer.Error(), file.Close(); TRUE iff it returns an error
CloseFails(w, fileCloseOk) == w.init /\ (w.err \/ ~fileCloseOk)

CloseWriter(w, fileCloseOk) ==
    IF ~w.init THEN w
    ELSE IF w.err THEN w
    ELSE [w EXCEPT !.fileOpen = FALSE]

\* error ProcessAndExport returns once the deferred writer.Close() has run:
\* the error of Close is only logged
ReturnAfterClose(pend, closeFailed) == pend

\* the deferred writer.Close() and the return of ProcessAndExport
DeferredClose ==
    /\ pc = "close"
    /\ \E fileCloseOk \in BOOLEAN :
         /\ writer' = CloseWriter(writer, fileCloseOk)
         /\ peRet' = ReturnAfterClose(pending, CloseFails(writer, fileCloseOk))
         /\ closeErr' = IF CloseFails(writer, fileCloseOk) THEN "External" ELSE "nil"
         /\ ioFailed' = (ioFailed \/ CloseFails(writer, fileCloseOk))
    /\ pc' = "done"
    /\ UNCHANGED <<ctxDone, cancelledOn, collection, primaryLive, ret, g, exportConfig, pending, sink, wi>>
    /\ UNCHANGED <<procVars, optVars, auxVars, histVars>>

Next ==
    \/ CtxExpire
    \/ ProcessStart
    \/ OpenInitial
    \/ Estimate
    \/ LoopTop
    \/ ClosePrev
    \/ OpenPage
    \/ ExtractLinks
    \/ EnrichOne
    \/ AddPageResults
    \/ UpdatePage
    \/ Sleep
    \/ AfterProcess
    \/ NewWriter
    \/ Initialize
    \/ WriteResult
    \/ FlushResults
    \/ DeferredClose

Spec == Init /\ [][Next]_vars

(***************************************************************************)
(* SpecColl: any sequence of appends on a fresh SearchCollection           *)
(***************************************************************************)
\* records the callers append
SomeResults == {MakeResult(p, i, o) : p \in 1..2, i \in 0..1, o \in EnrichOutcomes}

\* lists handed to AddResults, the empty list included
SomeLists == {<<>>} \cup {<<r>> : r \in SomeResults}
             \cup {<<r1, r2>> : r1 \in SomeResults, r2 \in SomeResults}

InitColl ==
    /\ pc = "coll"
    /\ collection = NewSearchCollection
    /\ RunIdle
    /\ g = GIdle

CollAddResult ==
    /\ pc = "coll"
    /\ Len(collection.Results) < MaxLen
    /\ \E r \in SomeResults : collection' = AddResult(collection, r)
    /\ UNCHANGED <<pc, ctxDone, cancelledOn, primaryLive, ret, g>>
    /\ UNCHANGED <<procVars, optVars, auxVars, exportVars, histVars>>

CollAddResults ==
    /\ pc = "coll"
    /\ \E rs \in SomeLists :
         /\ Len(collection.Results) + Len(rs) <= MaxLen
         /\ collection' = AddResults(collection, rs)
    /\ UNCHANGED <<pc, ctxDone, cancelledOn, primaryLive, ret, g>>
    /\ UNCHANGED <<procVars, optVars, auxVars, exportVars, histVars>>

CollUpdatePageCount ==
    /\ pc = "coll"
    /\ \E p \in 0..2 : collection' = UpdatePageCount(collection, p)
    /\ UNCHANGED <<pc, ctxDone, cancelledOn, primaryLive, ret, g>>
    /\ UNCHANGED <<procVars, optVars, auxVars, exportVars, histVars>>

NextColl == CollAddResult \/ CollAddResults \/ CollUpdatePageCount

SpecColl == InitColl /\ [][NextColl]_vars

(***************************************************************************)
(* SpecBound: the page bound of Process as a function of its inputs        *)
(***************************************************************************)
InitBound ==
    /\ pc = "bound_in"
    /\ collection = NewSearchCollection
    /\ totalResults \in 0..MaxTotal
    /\ MaxPagesOpt \in 0..MaxBoundCap
    /\ PageDelayOpt = FALSE /\ outputFile = FALSE /\ ctxDone = FALSE
    /\ IncludeHeadersOpt = TRUE /\ exportConfig = DefaultCSVConfig
    /\ cancelledOn = NotCancelled
    /\ AuxIdle
    /\ maxPagesToProcess = 0 /\ currentPage = 0 /\ links = 0
    /\ results = <<>> /\ primaryLive = FALSE /\ ret = NoRet
    /\ peRet = "none" /\ pending = "none" /\ writer = NoWriter
    /\ sink = <<>> /\ wi = 0 /\ closeErr = "none"
    /\ pageLog = <<>> /\ produced = <<>> /\ openTried = {}
    /\ openFailedAt = 0 /\ ioFailed = FALSE
    /\ g = GIdle

\* lines 119-128 of Process on the drawn inputs
ComputeBound ==
    /\ pc = "bound_in"
    /\ maxPagesToProcess' = MaxPagesToProcess(totalResults, MaxPagesOpt)
    /\ pc' = "bound_out"
    /\ UNCHANGED <<ctxDone, cancelledOn, collection, primaryLive, ret, g>>
    /\ UNCHANGED <<currentPage, links, results, totalResults>>
    /\ UNCHANGED <<optVars, auxVars, exportVars, histVars>>

NextBound == ComputeBound

SpecBound == InitBound /\ [][NextBound]_vars

(***************************************************************************)
(* SpecNext: one call of goToNextPage (click-based page transition)        *)
(***************************************************************************)
\* a fallback of a single attempt
MaxRetriesOf_FallbackOne(retryAttempts) ==
    IF retryAttempts <= 0 THEN 1 ELSE retryAttempts

\* maxRetries := e.options.RetryAttempts, 3 when not positive
MaxRetriesOf(retryAttempts) ==
    IF retryAttempts <= 0 THEN DefaultMaxRetries ELSE retryAttempts

\* baseTimeout, seconds
BaseTimeoutOf(navigationTimeout) ==
    IF navigationTimeout <= 0 THEN DefaultBaseTimeout ELSE navigationTimeout

\* timeout handed to WaitForNavigation on an attempt
NavigationTimeoutOf(navigationTimeout, base, attempt) ==
    IF navigationTimeout <= 0
    THEN base + (attempt - 1) * TimeoutIncrement
    ELSE navigationTimeout

\* values of the NavigationTimeout and PageTimeout options, seconds
TimeoutOpts == {0, 30}

InitNext ==
    /\ pc = "next"
    /\ collection = NewSearchCollection
    /\ RunIdle
    /\ \E ra \in -1..MaxRetryOpt, nt \in TimeoutOpts, pt \in TimeoutOpts :
         g = [GIdle EXCEPT !.pc = "entry", !.RetryAttempts = ra,
                           !.NavigationTimeout = nt, !.PageTimeout = pt]

gFrame ==
    /\ UNCHANGED <<pc, ctxDone, cancelledOn, collection, primaryLive, ret>>
    /\ UNCHANGED <<procVars, optVars, auxVars, exportVars, histVars>>

\* entry of goToNextPage: maxRetries, baseTimeout, attempt := 1
GEnter ==
    /\ g.pc = "entry"
    /\ g' = [g EXCEPT !.pc = "scroll",
                       !.maxRetries = MaxRetriesOf(g.RetryAttempts),
                       !.baseTimeout = BaseTimeoutOf(g.NavigationTimeout),
                       !.attempt = 1]
    /\ gFrame

\* ScrollToBottom and ScrollForDuration: an error is logged, the attempt goes on
GScroll ==
    /\ g.pc = "scroll"
    /\ \E bottomOk \in BOOLEAN, durationOk \in BOOLEAN :
         g' = [g EXCEPT !.pc = "click",
                        !.scrollWarn = ~bottomOk \/ ~durationOk]
    /\ gFrame

\* a failed step that is always followed by the backoff sleep
GFail_AlwaysSleep(step, sleep) ==
    IF g.attempt = g.maxRetries
    THEN [g EXCEPT !.pc = "returned", !.ret = "browser",
                   !.hist = Append(@, step)]
    ELSE [g EXCEPT !.pc = "scroll", !.attempt = @ + 1,
                   !.sleeps = @ + 1,
                   !.hist = Append(@, step)]

\* a failed step of an attempt: return on the last attempt, else continue;
\* sleep tells whether time.Sleep(1 * time.Second) precedes the continue
GFail(step, sleep) ==
    IF g.attempt = g.maxRetries
    THEN [g EXCEPT !.pc = "returned", !.ret = "browser",
                   !.hist = Append(@, step)]
    ELSE [g EXCEPT !.pc = "scroll", !.attempt = @ + 1,
                   !.sleeps = @ + (IF sleep THEN 1 ELSE 0),
                   !.hist = Append(@, step)]

\* e.browser.ClickElement(NextPageSelector)
GClick ==
    /\ g.pc = "click"
    /\ \E ok \in BOOLEAN :
         g' = IF ok
              THEN [g EXCEPT !.pc = "wait_nav", !.clicks = @ + 1]
              ELSE [GFail("click_fail", TRUE) EXCEPT !.clicks = @ + 1]
    /\ gFrame

\* e.browser.WaitForNavigation(navigationTimeout)
GWaitNavigation ==
    /\ g.pc = "wait_nav"
    /\ \E ok \in BOOLEAN :
         LET t == NavigationTimeoutOf(g.NavigationTimeout, g.baseTimeout, g.attempt)
         IN  g' = IF ok
                  THEN [g EXCEPT !.pc = "wait_elem",
                                 !.navTimeouts = Append(@, t)]
                  ELSE [GFail("nav_fail", FALSE) EXCEPT
                                 !.navTimeouts = Append(@, t)]
    /\ gFrame

\* e.browser.WaitForElement(ResultLinkSelector, resultTimeout)
GWaitElement ==
    /\ g.pc = "wait_elem"
    /\ \E ok \in BOOLEAN :
         g' = IF ok
              THEN [g EXCEPT !.pc = "returned", !.ret = "nil",
                             !.hist = Append(@, "ok")]
              ELSE GFail("elem_fail", FALSE)
    /\ gFrame

NextNext == GEnter \/ GScroll \/ GClick \/ GWaitNavigation \/ GWaitElement

SpecNext == InitNext /\ [][NextNext]_vars

(***************************************************************************)
(* SpecPage: one call of extractResultsFromCurrentPage, with the detail    *)
(* session of each record opened, read and closed step by step             *)
(***************************************************************************)
\* what detailBrowser.Open(detailURL) can meet
DetailOpenOutcomes == {"ok", "launch_fail", "connect_fail", "page_fail",
                       "navigate_fail", "load_fail"}

\* RodBrowser.Open fails and leaves its browser and page running: the
\* navigation and load failures return without Close
OpenLeavesSession(o) == o \in {"navigate_fail", "load_fail"}

\* RodBrowser.Open fails after calling b.Close() itself
OpenClosesSession(o) == o = "page_fail"

\* the enrichment outcome, from what was read
MetaKind(author, year) ==
    IF author # "" /\ year # "" THEN "ok"
    ELSE IF author # "" THEN "author_only"
    ELSE IF year # "" THEN "year_only"
    ELSE "fail"

\* one finished extractMetadataForResult call: how Open ended, what the marker
\* wait gave, whether the session it launched is live after the return
DetailCall(open, marker, live) == [open |-> open, marker |-> marker, live |-> live]

(***************************************************************************)
(* RodBrowser: the object run() creates and Process drives.  A session is  *)
(* a launched and connected browser; sessions are numbered as launched.    *)
(***************************************************************************)
\* one call on the object, as logged: the page index stands for its URL
BrowserCall(op, page, out, sess) == [op |-> op, page |-> page, out |-> out, sess |-> sess]

\* browser.NewBrowser(log, options): browser and page are nil
NewBrowser == [obj |-> "RodBrowser", browser |-> 0, page |-> FALSE, url |-> 0,
               live |-> {}, launched |-> 0, log |-> <<>>]

\* RodBrowser.Close: closes the page and the browser it holds, each within 5
\* seconds, and sets both fields to nil whatever happened; it returns nil.
\* closed: the browser was closed within the limit
BrowserCloseFields(b, closed) ==
    [b EXCEPT !.browser = 0, !.page = FALSE, !.url = 0,
              !.live = IF closed THEN @ \ {b.browser} ELSE @]

BrowserClose(b, closed) ==
    [BrowserCloseFields(b, closed) EXCEPT
        !.log = Append(@, BrowserCall("Close", 0,
                                      IF b.browser = 0 THEN "nothing"
                                      ELSE IF closed THEN "closed" ELSE "timeout",
                                      b.browser))]

\* RodBrowser.Open(url of page p) with outcome o; closed is the outcome of the
\* b.Close() Open calls itself when the page cannot be created
BrowserOpen(b, p, o, closed) ==
    LET n == b.launched + 1
        connected == [b EXCEPT !.browser = n, !.launched = n, !.live = @ \cup {n}]
        after ==
            IF o \in {"launch_fail", "connect_fail"} THEN b
            ELSE IF OpenClosesSession(o) THEN BrowserCloseFields(connected, closed)
            ELSE IF OpenLeavesSession(o) THEN [connected EXCEPT !.page = TRUE]
            ELSE [connected EXCEPT !.page = TRUE, !.url = p]
    IN  [after EXCEPT !.log = Append(@, BrowserCall("Open", p, o,
                                     IF o \in {"launch_fail", "connect_fail"} THEN 0 ELSE n))]

\* e.browser.ExtractLinks on the page the session shows, and the rest of the
\* loop body, none of which calls Open or Close
BrowserExtract(b, p) ==
    [b EXCEPT !.log = Append(@, BrowserCall("Extract", p, "none", b.browser))]

InitPage ==
    /\ pc = "page_extract"
    /\ collection = NewSearchCollection
    /\ MaxPagesOpt = 0 /\ PageDelayOpt = FALSE /\ outputFile = FALSE
    /\ IncludeHeadersOpt = TRUE /\ exportConfig = DefaultCSVConfig
    /\ ctxDone = FALSE /\ cancelledOn = NotCancelled
    /\ wLog = <<>> /\ detailLive = 0 /\ detail = DetailIdle /\ fn = FnIdle /\ params = NoParams
    /\ sleepLog = <<>>
    /\ maxPagesToProcess = 0 /\ currentPage \in 1..2 /\ links = 0
    /\ browser = BrowserOpen(NewBrowser, currentPage, "ok", TRUE)
    /\ results = <<>> /\ primaryLive = TRUE /\ ret = NoRet
    /\ peRet = "none" /\ pending = "none" /\ writer = NoWriter
    /\ sink = <<>> /\ wi = 0 /\ closeErr = "none"
    /\ pageLog = <<>> /\ produced = <<>> /\ openTried = {}
    /\ openFailedAt = 0 /\ ioFailed = FALSE /\ totalResults = 0
    /\ g = GIdle

pFrame ==
    /\ UNCHANGED <<ctxDone, cancelledOn, collection, primaryLive, g>>
    /\ UNCHANGED <<maxPagesToProcess, currentPage, totalResults>>
    /\ UNCHANGED <<optVars, exportVars>>
    /\ UNCHANGED <<produced, openTried, openFailedAt, wLog, fn, sessVars>>

\* e.browser.ExtractLinks(ResultLinkSelector) and the two early returns
PExtractLinks ==
    /\ pc = "page_extract"
    /\ \E n \in -1..MaxLinks :
         /\ links' = IF n < 0 THEN 0 ELSE n
         /\ pageLog' = Append(pageLog, <<currentPage, n>>)
         /\ pc' = IF n <= 0 THEN "page_ret" ELSE "page_link"
         /\ ret' = IF n < 0 THEN ReturnFrom("nil", "browser")
                    ELSE IF n = 0 THEN ReturnFrom("results", "none")
                    ELSE ret
    /\ results' = <<>>
    /\ UNCHANGED <<detailLive, detail>>
    /\ pFrame

\* the loop over links once a record was appended: next link or return results
AfterAppend(n) == IF n = links THEN "page_ret" ELSE "page_link"

\* the record of the current link with the metadata the call returned
Appended(author, year) ==
    Append(results, MakeResult(currentPage, Len(results), MetaKind(author, year)))

\* an enricher whose Open failure fails the whole page
PDetailOpen_Abort ==
    /\ pc = "page_link"
    /\ Len(results) < links
    /\ \E o \in DetailOpenOutcomes, closed \in BOOLEAN :
         IF o = "ok"
         THEN /\ detailLive' = detailLive + 1
              /\ detail' = [detail EXCEPT !.open = o]
              /\ results' = results
              /\ pc' = "detail_wait"
              /\ ret' = ret
         ELSE LET live == OpenLeavesSession(o) \/ (OpenClosesSession(o) /\ ~closed)
              IN  /\ detailLive' = detailLive + (IF live THEN 1 ELSE 0)
                  /\ detail' = [detail EXCEPT
                                   !.hist = Append(@, DetailCall(o, "none", live))]
                  /\ results' = results
                  /\ pc' = "page_ret"
                  /\ ret' = ReturnFrom("nil", "browser")
    /\ UNCHANGED <<links, pageLog>>
    /\ pFrame

\* extractMetadataForResult up to detailBrowser.Open(detailURL): on a failure
\* it returns ("", "") at once, before any Close is deferred
PDetailOpen ==
    /\ pc = "page_link"
    /\ Len(results) < links
    /\ \E o \in DetailOpenOutcomes, closed \in BOOLEAN :
         IF o = "ok"
         THEN /\ detailLive' = detailLive + 1
              /\ detail' = [detail EXCEPT !.open = o]
              /\ results' = results
              /\ pc' = "detail_wait"
              /\ ret' = ret
         ELSE LET live == OpenLeavesSession(o) \/ (OpenClosesSession(o) /\ ~closed)
              IN  /\ detailLive' = detailLive + (IF live THEN 1 ELSE 0)
                  /\ detail' = [detail EXCEPT
                                   !.hist = Append(@, DetailCall(o, "none", live))]
                  /\ results' = Appended("", "")
                  /\ pc' = AfterAppend(Len(results) + 1)
                  /\ ret' = IF Len(results) + 1 = links
                             THEN ReturnFrom("results", "none") ELSE ret
    /\ UNCHANGED <<links, pageLog>>
    /\ pFrame

\* detailBrowser.WaitForElement(DetailYearSelector, timeout): a timeout is logged
PDetailWait ==
    /\ pc = "detail_wait"
    /\ \E m \in {"found", "timeout"} : detail' = [detail EXCEPT !.marker = m]
    /\ pc' = "detail_author"
    /\ UNCHANGED <<links, results, pageLog, ret, detailLive>>
    /\ pFrame

\* extractAuthorsFromDetail: "" when the elements cannot be read
PDetailAuthor ==
    /\ pc = "detail_author"
    /\ \E a \in {"A", ""} : detail' = [detail EXCEPT !.author = a]
    /\ pc' = "detail_year"
    /\ UNCHANGED <<links, results, pageLog, ret, detailLive>>
    /\ pFrame

\* extractYearFromDetail: "" when the element cannot be read
PDetailYear ==
    /\ pc = "detail_year"
    /\ \E y \in {"Y", ""} : detail' = [detail EXCEPT !.year = y]
    /\ pc' = "detail_close"
    /\ UNCHANGED <<links, results, pageLog, ret, detailLive>>
    /\ pFrame

\* an enricher whose deferred Close is called on the primary browser
PDetailClose_OnPrimary ==
    /\ pc = "detail_close"
    /\ \E closed \in BOOLEAN :
         /\ browser' = BrowserClose(browser, closed)
         /\ primaryLive' = ~closed
         /\ detail' = [DetailIdle EXCEPT
                          !.hist = Append(detail.hist,
                                          DetailCall(detail.open, detail.marker, TRUE))]
    /\ results' = Appended(detail.author, detail.year)
    /\ pc' = AfterAppend(Len(results) + 1)
    /\ ret' = IF Len(results) + 1 = links THEN ReturnFrom("results", "none") ELSE ret
    /\ UNCHANGED <<links, pageLog, detailLive>>
    /\ UNCHANGED <<ctxDone, cancelledOn, collection, g>>
    /\ UNCHANGED <<maxPagesToProcess, currentPage, totalResults>>
    /\ UNCHANGED <<optVars, exportVars>>
    /\ UNCHANGED <<produced, openTried, openFailedAt, wLog, fn, sleepLog>>

\* return author, year: the deferred detailBrowser.Close() runs (it gives up
\* on a close that takes more than 5 seconds), then the record is appended
PDetailClose ==
    /\ pc = "detail_close"
    /\ \E closed \in BOOLEAN :
         /\ detailLive' = detailLive - (IF closed THEN 1 ELSE 0)
         /\ detail' = [DetailIdle EXCEPT
                          !.hist = Append(detail.hist,
                                          DetailCall(detail.open, detail.marker, ~closed))]
    /\ results' = Appended(detail.author, detail.year)
    /\ pc' = AfterAppend(Len(results) + 1)
    /\ ret' = IF Len(results) + 1 = links THEN ReturnFrom("results", "none") ELSE ret
    /\ UNCHANGED <<links, pageLog>>
    /\ pFrame

NextPage == PExtractLinks \/ PDetailOpen \/ PDetailWait \/ PDetailAuthor
            \/ PDetailYear \/ PDetailClose

SpecPage == InitPage /\ [][NextPage]_vars

(***************************************************************************)
(* SpecRun: run() of main from the creation of the browser object to its   *)
(* return, in export mode (ProcessSearchResults) and in view mode.  Only   *)
(* the calls on the primary RodBrowser are followed; the records are not.  *)
(***************************************************************************)
InitRun ==
    /\ pc = "run_start"
    /\ collection = NewSearchCollection
    /\ MaxPagesOpt = 0 /\ PageDelayOpt = FALSE /\ outputFile \in BOOLEAN
    /\ IncludeHeadersOpt = TRUE /\ exportConfig = DefaultCSVConfig
    /\ ctxDone = FALSE /\ cancelledOn = NotCancelled
    /\ wLog = <<>> /\ detailLive = 0 /\ detail = DetailIdle /\ fn = FnIdle /\ params = NoParams
    /\ sleepLog = <<>>
    /\ browser = NewBrowser
    /\ maxPagesToProcess = 0 /\ currentPage = 0 /\ links = 0
    /\ results = <<>> /\ primaryLive = FALSE /\ ret = NoRet
    /\ peRet = "none" /\ pending = "none" /\ writer = NoWriter
    /\ sink = <<>> /\ wi = 0 /\ closeErr = "none"
    /\ pageLog = <<>> /\ produced = <<>> /\ openTried = {}
    /\ openFailedAt = 0 /\ ioFailed = FALSE /\ totalResults = 0
    /\ g = GIdle

rFrame ==
    /\ UNCHANGED <<collection, primaryLive, ret, g, cancelledOn>>
    /\ UNCHANGED <<links, results, totalResults>>
    /\ UNCHANGED <<peRet, writer, sink, wi, closeErr, ioFailed, exportConfig>>
    /\ UNCHANGED <<wLog, detailLive, detail, fn, sleepLog>>
    /\ UNCHANGED <<optVars, histVars>>

\* positions of run() inside Process
RunProcessPcs == {"run_open_initial", "run_estimate", "run_loop_top",
                  "run_close_prev", "run_open_page", "run_extract"}

\* the 600-second timeout of Process fires
RunCtxExpire ==
    /\ pc \in RunProcessPcs
    /\ ~ctxDone
    /\ ctxDone' = TRUE
    /\ UNCHANGED <<pc, browser, currentPage, maxPagesToProcess, pending>>
    /\ rFrame

\* if params.ExportResults && params.OutputFile != "" {...} else {...}
RunStart ==
    /\ pc = "run_start"
    /\ pc' = IF outputFile THEN "run_open_initial" ELSE "run_view_open"
    /\ UNCHANGED <<browser, currentPage, maxPagesToProcess, ctxDone, pending>>
    /\ rFrame

\* Process: e.browser.Open(searchURL); a failure is returned up to run()
RunOpenInitial ==
    /\ pc = "run_open_initial"
    /\ \E o \in DetailOpenOutcomes, closed \in BOOLEAN :
         /\ browser' = BrowserOpen(browser, 1, o, closed)
         /\ pc' = IF o = "ok" THEN "run_estimate" ELSE "run_defer"
         /\ pending' = IF o = "ok" THEN pending ELSE "Browser"
    /\ UNCHANGED <<currentPage, maxPagesToProcess, ctxDone>>
    /\ rFrame

\* Process: the estimate and the bound, any value up to MaxRunPages
RunEstimate ==
    /\ pc = "run_estimate"
    /\ \E n \in 0..MaxRunPages : maxPagesToProcess' = n
    /\ currentPage' = 1
    /\ pc' = "run_loop_top"
    /\ UNCHANGED <<browser, ctxDone, pending>>
    /\ rFrame

\* Process: loop condition and the select on ctx.Done()
RunLoopTop ==
    /\ pc = "run_loop_top"
    /\ IF currentPage > maxPagesToProcess
       THEN /\ pc' = "run_export"
            /\ pending' = pending
       ELSE IF ctxDone
       THEN /\ pc' = "run_defer"
            /\ pending' = "Browser"
       ELSE /\ pc' = IF currentPage > 1 THEN "run_close_prev" ELSE "run_extract"
            /\ pending' = pending
    /\ UNCHANGED <<browser, currentPage, maxPagesToProcess, ctxDone>>
    /\ rFrame

\* a page loop that gives up when the previous session could not be closed
RunClosePrev_StopOnFailure ==
    /\ pc = "run_close_prev"
    /\ \E closed \in BOOLEAN :
         /\ browser' = BrowserClose(browser, closed)
         /\ pc' = IF closed THEN "run_open_page" ELSE "run_defer"
         /\ pending' = IF closed THEN pending ELSE "Browser"
    /\ UNCHANGED <<currentPage, maxPagesToProcess, ctxDone>>
    /\ rFrame

\* Process: e.browser.Close() of the previous page's session; Close returns
\* nil also when closing failed, and Process goes on to Open in any case
RunClosePrev ==
    /\ pc = "run_close_prev"
    /\ \E closed \in BOOLEAN : browser' = BrowserClose(browser, closed)
    /\ pc' = "run_open_page"
    /\ UNCHANGED <<currentPage, maxPagesToProcess, ctxDone, pending>>
    /\ rFrame

\* Process: e.browser.Open(pageURL); a failure leaves the loop (break) and
\* Process returns the collection
RunOpenPage ==
    /\ pc = "run_open_page"
    /\ \E o \in DetailOpenOutcomes, closed \in BOOLEAN :
         /\ browser' = BrowserOpen(browser, currentPage, o, closed)
         /\ pc' = IF o = "ok" THEN "run_extract" ELSE "run_export"
    /\ UNCHANGED <<currentPage, maxPagesToProcess, ctxDone, pending>>
    /\ rFrame

\* Process: the rest of the loop body (extraction, AddResults,
\* UpdatePageCount, delay) and currentPage++
RunExtract ==
    /\ pc = "run_extract"
    /\ browser' = BrowserExtract(browser, currentPage)
    /\ currentPage' = currentPage + 1
    /\ pc' = "run_loop_top"
    /\ UNCHANGED <<maxPagesToProcess, ctxDone, pending>>
    /\ rFrame

\* ProcessAndExport after Process returned the collection: the export, which
\* succeeds or fails
RunExport ==
    /\ pc = "run_export"
    /\ \E ok \in BOOLEAN : pending' = IF ok THEN "nil" ELSE "External"
    /\ pc' = "run_defer"
    /\ UNCHANGED <<browser, currentPage, maxPagesToProcess, ctxDone>>
    /\ rFrame

\* view mode: browser.Open(searchURL)
RunViewOpen ==
    /\ pc = "run_view_open"
    /\ \E o \in DetailOpenOutcomes, closed \in BOOLEAN :
         /\ browser' = BrowserOpen(browser, 1, o, closed)
         /\ pc' = IF o = "ok" THEN "run_view_wait" ELSE "run_defer"
         /\ pending' = IF o = "ok" THEN pending ELSE "Browser"
    /\ UNCHANGED <<currentPage, maxPagesToProcess, ctxDone>>
    /\ rFrame

\* view mode: return browser.Wait(30 * time.Second)
RunViewWait ==
    /\ pc = "run_view_wait"
    /\ pending' = "nil"
    /\ pc' = "run_defer"
    /\ UNCHANGED <<browser, currentPage, maxPagesToProcess, ctxDone>>
    /\ rFrame

\* the deferred browser.Close() of run(), then run() returns
RunDeferredClose ==
    /\ pc = "run_defer"
    /\ \E closed \in BOOLEAN : browser' = BrowserClose(browser, closed)
    /\ pc' = "run_ret"
    /\ UNCHANGED <<currentPage, maxPagesToProcess, ctxDone, pending>>
    /\ UNCHANGED <<collection, primaryLive, ret, g, cancelledOn>>
    /\ UNCHANGED <<links, results, totalResults>>
    /\ peRet' = pending
    /\ UNCHANGED <<writer, sink, wi, closeErr, ioFailed, exportConfig>>
    /\ UNCHANGED <<wLog, detailLive, detail, fn, sleepLog>>
    /\ UNCHANGED <<optVars, histVars>>

NextRun ==
    \/ RunCtxExpire
    \/ RunStart
    \/ RunOpenInitial
    \/ RunEstimate
    \/ RunLoopTop
    \/ RunClosePrev
    \/ RunOpenPage
    \/ RunExtract
    \/ RunExport
    \/ RunViewOpen
    \/ RunViewWait
    \/ RunDeferredClose

SpecRun == InitRun /\ [][NextRun]_vars

(***************************************************************************)
(* Strings: a string is the sequence of its characters                     *)
(***************************************************************************)
\* all strings over alphabet A of length at most n
StringsUpTo(A, n) == UNION {[1..k -> A] : k \in 0..n}

\* strings.HasPrefix
HasPrefix(str, prefix) ==
    /\ Len(str) >= Len(prefix)
    /\ SubSeq(str, 1, Len(prefix)) = prefix

\* sub occurs in str at position i (1-based)
OccursAt(str, sub, i) ==
    /\ i >= 1
    /\ i + Len(sub) - 1 <= Len(str)
    /\ SubSeq(str, i, i + Len(sub) - 1) = sub

\* strings.Index, 1-based: position of the first occurrence of sub, 0 if none
Index(str, sub) ==
    IF \E i \in 1..Len(str) : OccursAt(str, sub, i)
    THEN CHOOSE i \in 1..Len(str) :
             /\ OccursAt(str, sub, i)
             /\ \A j \in 1..(i - 1) : ~OccursAt(str, sub, j)
    ELSE 0

\* strings.Contains
Contains(str, sub) == Index(str, sub) # 0

\* str[from:], from 1-based
From(str, from) == SubSeq(str, from, Len(str))

(***************************************************************************)
(* SpecID: extractIDFromURL as a function of the URL                       *)
(***************************************************************************)
\* extractIDFromURL
extractIDFromURL(urlStr) ==
    LET idPos == Index(urlStr, <<"i", "d", "=">>)
    IN  IF idPos = 0 THEN <<>>
        ELSE LET idPart == From(urlStr, idPos + 3)
                 ampPos == Index(idPart, <<"&">>)
             IN  IF ampPos # 0 THEN SubSeq(idPart, 1, ampPos - 1) ELSE idPart

\* characters of the URLs of SpecID
IdUrlChars == {"?", "&", "=", "i", "d", "u", "7"}

fnFrame ==
    /\ UNCHANGED <<ctxDone, cancelledOn, collection, primaryLive, ret, g>>
    /\ UNCHANGED <<wLog, detailLive, detail, sessVars>>
    /\ UNCHANGED <<procVars, optVars, exportVars, histVars>>

InitID ==
    /\ pc = "fn_in"
    /\ collection = NewSearchCollection
    /\ MaxPagesOpt = 0 /\ PageDelayOpt = FALSE /\ outputFile = FALSE
    /\ IncludeHeadersOpt = TRUE /\ exportConfig = DefaultCSVConfig
    /\ ctxDone = FALSE /\ cancelledOn = NotCancelled
    /\ wLog = <<>> /\ detailLive = 0 /\ detail = DetailIdle /\ SessIdle /\ params = NoParams
    /\ \E u \in StringsUpTo(IdUrlChars, MaxIdUrlLen) :
         fn = [name |-> "extractIDFromURL", in |-> u, out |-> <<>>]
    /\ maxPagesToProcess = 0 /\ currentPage = 0 /\ links = 0
    /\ results = <<>> /\ primaryLive = FALSE /\ ret = NoRet
    /\ peRet = "none" /\ pending = "none" /\ writer = NoWriter
    /\ sink = <<>> /\ wi = 0 /\ closeErr = "none"
    /\ pageLog = <<>> /\ produced = <<>> /\ openTried = {}
    /\ openFailedAt = 0 /\ ioFailed = FALSE /\ totalResults = 0
    /\ g = GIdle

\* ID: extractIDFromURL(link.URL)
ComputeID ==
    /\ pc = "fn_in"
    /\ fn.name = "extractIDFromURL"
    /\ fn' = [fn EXCEPT !.out = extractIDFromURL(fn.in)]
    /\ pc' = "fn_out"
    /\ fnFrame

NextID == ComputeID

SpecID == InitID /\ [][NextID]_vars

(***************************************************************************)
(* SpecAbs: absoluteURL as a function of the href                          *)
(***************************************************************************)
\* baseURL of absoluteURL, "https://www.periodicos.capes.gov.br"
CapesBaseURL == <<"h", "t", "t", "p", "s", ":", "/", "/", "capes">>

\* an absoluteURL that leaves an empty href empty
absoluteURL_KeepEmpty(urlStr) ==
    IF urlStr = <<>> THEN <<>>
    ELSE IF HasPrefix(urlStr, <<"h", "t", "t", "p">>) THEN urlStr
    ELSE IF HasPrefix(urlStr, <<"/">>) THEN CapesBaseURL \o urlStr
    ELSE CapesBaseURL \o <<"/">> \o urlStr

\* absoluteURL
absoluteURL(urlStr) ==
    IF HasPrefix(urlStr, <<"h", "t", "t", "p">>) THEN urlStr
    ELSE IF HasPrefix(urlStr, <<"/">>) THEN CapesBaseURL \o urlStr
    ELSE CapesBaseURL \o <<"/">> \o urlStr

\* characters of the hrefs of SpecAbs
HrefChars == {"h", "t", "p", "f", ":", "/"}

InitAbs ==
    /\ pc = "fn_in"
    /\ collection = NewSearchCollection
    /\ MaxPagesOpt = 0 /\ PageDelayOpt = FALSE /\ outputFile = FALSE
    /\ IncludeHeadersOpt = TRUE /\ exportConfig = DefaultCSVConfig
    /\ ctxDone = FALSE /\ cancelledOn = NotCancelled
    /\ wLog = <<>> /\ detailLive = 0 /\ detail = DetailIdle /\ SessIdle /\ params = NoParams
    /\ \E u \in StringsUpTo(HrefChars, MaxHrefLen) :
         fn = [name |-> "absoluteURL", in |-> u, out |-> <<>>]
    /\ maxPagesToProcess = 0 /\ currentPage = 0 /\ links = 0
    /\ results = <<>> /\ primaryLive = FALSE /\ ret = NoRet
    /\ peRet = "none" /\ pending = "none" /\ writer = NoWriter
    /\ sink = <<>> /\ wi = 0 /\ closeErr = "none"
    /\ pageLog = <<>> /\ produced = <<>> /\ openTried = {}
    /\ openFailedAt = 0 /\ ioFailed = FALSE /\ totalResults = 0
    /\ g = GIdle

\* URL: absoluteURL(link.URL)
ComputeAbs ==
    /\ pc = "fn_in"
    /\ fn.name = "absoluteURL"
    /\ fn' = [fn EXCEPT !.out = absoluteURL(fn.in)]
    /\ pc' = "fn_out"
    /\ fnFrame

NextAbs == ComputeAbs

SpecAbs == InitAbs /\ [][NextAbs]_vars

(***************************************************************************)
(* SpecEnrich: the records of one listing page from its anchors, with the  *)
(* href of each anchor and the guard of extractMetadataForResult           *)
(***************************************************************************)
\* href attributes of the anchors of SpecEnrich
EnrichHrefs == {<<>>, <<"/">>, <<"f">>, <<"/", "f">>, <<"h", "t", "t", "p">>,
                <<"h", "t", "t", "p", ":">>}

\* a result anchor of the page: its href attribute, when it has one
EnrichAnchors == {[hasHref |-> FALSE, href |-> <<>>]}
                 \cup {[hasHref |-> TRUE, href |-> u] : u \in EnrichHrefs}

\* ExtractLinks: link.URL is the href, and stays "" when the attribute is
\* missing or cannot be read
LinkDataURL(a) == IF a.hasHref THEN a.href ELSE <<>>

\* one extractMetadataForResult call: the URL it was given and how far it got
\* ("guard": returned at the empty-URL test; else the outcome of Open)
EnrichCall(url, open) == [url |-> url, open |-> open]

\* the record of anchor i as far as this specification follows it
EnrichResult(url, i, enriched) == [URL |-> url, Position |-> i, enriched |-> enriched]

InitEnrich ==
    /\ pc = "enrich_extract"
    /\ collection = NewSearchCollection
    /\ MaxPagesOpt = 0 /\ PageDelayOpt = FALSE /\ outputFile = FALSE
    /\ IncludeHeadersOpt = TRUE /\ exportConfig = DefaultCSVConfig
    /\ ctxDone = FALSE /\ cancelledOn = NotCancelled
    /\ wLog = <<>> /\ detailLive = 0 /\ detail = DetailIdle /\ SessIdle /\ params = NoParams
    /\ \E as \in UNION {[1..k -> EnrichAnchors] : k \in 0..MaxLinks} :
         fn = [name |-> "extractResultsFromCurrentPage", in |-> as, out |-> <<>>]
    /\ maxPagesToProcess = 0 /\ currentPage = 1 /\ links = 0
    /\ results = <<>> /\ primaryLive = TRUE /\ ret = NoRet
    /\ peRet = "none" /\ pending = "none" /\ writer = NoWriter
    /\ sink = <<>> /\ wi = 0 /\ closeErr = "none"
    /\ pageLog = <<>> /\ produced = <<>> /\ openTried = {}
    /\ openFailedAt = 0 /\ ioFailed = FALSE /\ totalResults = 0
    /\ g = GIdle

enrichFrame ==
    /\ UNCHANGED <<ctxDone, cancelledOn, collection, primaryLive, g>>
    /\ UNCHANGED <<maxPagesToProcess, currentPage, totalResults>>
    /\ UNCHANGED <<optVars, exportVars>>
    /\ UNCHANGED <<produced, openTried, openFailedAt, wLog, detailLive, sessVars>>

\* e.browser.ExtractLinks(ResultLinkSelector): one LinkData per anchor; the
\* call fails, or the page has no anchors, or the loop over the links starts
EnrichExtractLinks ==
    /\ pc = "enrich_extract"
    /\ \E ok \in BOOLEAN :
         IF ~ok
         THEN /\ links' = 0
              /\ fn' = fn
              /\ pageLog' = Append(pageLog, <<currentPage, -1>>)
              /\ pc' = "enrich_ret"
              /\ ret' = ReturnFrom("nil", "browser")
         ELSE /\ links' = Len(fn.in)
              /\ fn' = [fn EXCEPT !.out = [i \in DOMAIN fn.in |-> LinkDataURL(fn.in[i])]]
              /\ pageLog' = Append(pageLog, <<currentPage, Len(fn.in)>>)
              /\ pc' = IF Len(fn.in) = 0 THEN "enrich_ret" ELSE "enrich_link"
              /\ ret' = IF Len(fn.in) = 0 THEN ReturnFrom("results", "none") ELSE ret
    /\ results' = <<>>
    /\ detail' = detail
    /\ enrichFrame

\* one iteration of the loop over links: URL: absoluteURL(link.URL), then
\* extractMetadataForResult(result.URL), which returns at once for an empty
\* URL and otherwise calls Open on a new detail browser, then the append
EnrichLink ==
    /\ pc = "enrich_link"
    /\ Len(results) < links
    /\ LET i == Len(results) + 1
           url == absoluteURL(fn.out[i])
       IN  /\ IF url = <<>>
              THEN /\ detail' = [detail EXCEPT !.hist = Append(@, EnrichCall(url, "guard"))]
                   /\ results' = Append(results, EnrichResult(url, i, FALSE))
              ELSE \E o \in DetailOpenOutcomes :
                   /\ detail' = [detail EXCEPT !.hist = Append(@, EnrichCall(url, o))]
                   /\ results' = Append(results, EnrichResult(url, i, o = "ok"))
           /\ pc' = IF i = links THEN "enrich_ret" ELSE "enrich_link"
           /\ ret' = IF i = links THEN ReturnFrom("results", "none") ELSE ret
    /\ UNCHANGED <<links, pageLog, fn>>
    /\ enrichFrame

NextEnrich == EnrichExtractLinks \/ EnrichLink

SpecEnrich == InitEnrich /\ [][NextEnrich]_vars

(***************************************************************************)
(* SpecURL: buildPageURL on the search URL. The word "page", the parameter *)
(* names and the site address are single symbols of the strings here.      *)
(***************************************************************************)
DigitChars == <<"0", "1", "2", "3", "4", "5", "6", "7", "8", "9">>

\* \d of the regular expression
IsDigit(c) == \E d \in DOMAIN DigitChars : DigitChars[d] = c

\* fmt.Sprintf("%d", n) for n >= 0
RECURSIVE FormatInt(_)
FormatInt(n) ==
    IF n < 10 THEN <<DigitChars[n + 1]>>
    ELSE FormatInt(n \div 10) \o <<DigitChars[(n % 10) + 1]>>

\* length of the run of digits of str that starts at position i
RECURSIVE DigitRun(_, _)
DigitRun(str, i) ==
    IF i <= Len(str) /\ IsDigit(str[i]) THEN 1 + DigitRun(str, i + 1) ELSE 0

\* regexp `page=\d+` ReplaceAllString(str, repl): leftmost matches, each the
\* longest run of digits
RECURSIVE ReplaceAllPage(_, _)
ReplaceAllPage(str, repl) ==
    IF str = <<>> THEN <<>>
    ELSE IF OccursAt(str, <<"page", "=">>, 1) /\ DigitRun(str, 3) > 0
    THEN repl \o ReplaceAllPage(From(str, 3 + DigitRun(str, 3)), repl)
    ELSE <<str[1]>> \o ReplaceAllPage(Tail(str), repl)

\* a buildPageURL that appends the parameter even when one is there
buildPageURL_AlwaysAppend(baseURL, page) ==
    IF Contains(baseURL, <<"?">>)
    THEN baseURL \o <<"&", "page", "=">> \o FormatInt(page)
    ELSE baseURL \o <<"?", "page", "=">> \o FormatInt(page)

\* buildPageURL
buildPageURL(baseURL, page) ==
    IF Contains(baseURL, <<"?">>)
    THEN IF Contains(baseURL, <<"page", "=">>)
         THEN ReplaceAllPage(baseURL, <<"page", "=">> \o FormatInt(page))
         ELSE baseURL \o <<"&", "page", "=">> \o FormatInt(page)
    ELSE baseURL \o <<"?", "page", "=">> \o FormatInt(page)

\* symbols of a search term once url.QueryEscape has encoded it: no "=", "&", "?"
TermChars == {"page", "x", "1", "+"}

\* encodeSearchTerm of the (non-empty) search terms
EncodedTerms == StringsUpTo(TermChars, MaxTermLen) \ {<<>>}

\* optional parameters after "source="
OptionalParams == {<<>>, <<"&", "type", "=", "x">>}

\* BuildSearchURL: baseURL + "?" + "q=" + term + "&source=" + optional parameters
BuildSearchURL(term, optional) ==
    <<"buscador", "?", "q", "=">> \o term \o <<"&", "source", "=">> \o optional

\* page numbers asked for: one and two digits, up to MaxPageNo
PageNumbers == {1, 2, 9, 10, MaxPageNo}

\* URLs handed to Process: the site address alone, the URLs BuildSearchURL
\* yields, and such URLs already carrying a page parameter
SearchURLs ==
    {<<"buscador">>}
    \cup {BuildSearchURL(t, o) : t \in EncodedTerms, o \in OptionalParams}
    \cup {BuildSearchURL(t, o) \o <<"&", "page", "=">> \o FormatInt(k) :
              t \in EncodedTerms, o \in OptionalParams, k \in PageNumbers}
    \cup {<<"buscador", "?", "page", "=">> \o FormatInt(k) \o <<"&", "q", "=">> \o t :
              t \in EncodedTerms, k \in PageNumbers}

InitURL ==
    /\ pc = "fn_in"
    /\ collection = NewSearchCollection
    /\ MaxPagesOpt = 0 /\ PageDelayOpt = FALSE /\ outputFile = FALSE
    /\ IncludeHeadersOpt = TRUE /\ exportConfig = DefaultCSVConfig
    /\ ctxDone = FALSE /\ cancelledOn = NotCancelled
    /\ wLog = <<>> /\ detailLive = 0 /\ detail = DetailIdle /\ SessIdle /\ params = NoParams
    /\ \E u \in SearchURLs, m \in PageNumbers, n \in PageNumbers :
         fn = [name |-> "buildPageURL", u |-> u, m |-> m, n |-> n,
               once |-> <<>>, twice |-> <<>>]
    /\ maxPagesToProcess = 0 /\ currentPage = 0 /\ links = 0
    /\ results = <<>> /\ primaryLive = FALSE /\ ret = NoRet
    /\ peRet = "none" /\ pending = "none" /\ writer = NoWriter
    /\ sink = <<>> /\ wi = 0 /\ closeErr = "none"
    /\ pageLog = <<>> /\ produced = <<>> /\ openTried = {}
    /\ openFailedAt = 0 /\ ioFailed = FALSE /\ totalResults = 0
    /\ g = GIdle

\* pageURL = e.buildPageURL(searchURL, n), directly and on the URL of page m
ComputePageURL ==
    /\ pc = "fn_in"
    /\ fn.name = "buildPageURL"
    /\ fn' = [fn EXCEPT !.once = buildPageURL(fn.u, fn.n),
                         !.twice = buildPageURL(buildPageURL(fn.u, fn.m), fn.n)]
    /\ pc' = "fn_out"
    /\ fnFrame

NextURL == ComputePageURL

SpecURL == InitURL /\ [][NextURL]_vars

(***************************************************************************)
(* SpecValidate: the SearchParams of run(), ValidateSearchParams and       *)
(* BuildSearchURL.  Years are on a small scale on which the current year   *)
(* is ThisYear.  PublicationType and Languages, which no validation step   *)
(* tests, are left out.                                                    *)
(***************************************************************************)
\* time.Now().Year()
ThisYear == 2

\* values of the flags: -search, -oa, -pr, -pymin, -pymax, -output, -format,
\* -max-pages
FlagTerms == {<<>>, <<"x">>}
FlagAccess == {"", "sim", "x"}
FlagPeer == {"", "nao", "x"}
FlagYearMin == {-1, 0, 1, 3}
FlagYearMax == {-1, 0, 2}
FlagOutput == {"", "f"}
FlagFormat == {"csv", "x"}
FlagMaxPages == {-1, 0}

\* config.SetupFlags: NewSearchParams populated from the parsed flags
SetupFlags(term, oa, pr, ymin, ymax, out, format, maxPages) ==
    [SearchTerm |-> term, AccessType |-> oa, PeerReviewed |-> pr,
     YearMin |-> ymin, YearMax |-> ymax,
     OutputFile |-> out, ExportResults |-> (out # ""), ExportFormat |-> format,
     MaxPages |-> maxPages,
     EffectiveYearMax |-> 0, CurrentYear |-> ThisYear, Valid |-> FALSE]

\* what a validation step returns: the params as it left them and its error
Validated(p, err) == [params |-> p, err |-> err]

\* validateAccessType
validateAccessType(p) ==
    IF p.AccessType = "" THEN "nil"
    ELSE IF p.AccessType # "sim" /\ p.AccessType # "nao" THEN "Configuration"
    ELSE "nil"

\* validatePeerReview
validatePeerReview(p) ==
    IF p.PeerReviewed = "" THEN "nil"
    ELSE IF p.PeerReviewed # "sim" /\ p.PeerReviewed # "nao" THEN "Configuration"
    ELSE "nil"

\* validateYears: writes CurrentYear and EffectiveYearMax on its way
validateYears(p) ==
    IF p.YearMin = 0 /\ p.YearMax = 0 THEN Validated(p, "nil")
    ELSE LET p1 == [p EXCEPT !.CurrentYear = ThisYear]
             p2 == [p1 EXCEPT !.EffectiveYearMax =
                                  IF p.YearMin > 0 /\ p.YearMax = 0
                                  THEN ThisYear ELSE p.YearMax]
         IN  IF p.YearMin < 0 THEN Validated(p1, "Configuration")
             ELSE IF p.YearMax < 0 THEN Validated(p1, "Configuration")
             ELSE IF /\ p2.YearMin > 0 /\ p2.EffectiveYearMax > 0
                     /\ p2.YearMin > p2.EffectiveYearMax
                  THEN Validated(p2, "Configuration")
                  ELSE Validated(p2, "nil")

\* validateExportParams
validateExportParams(p) ==
    IF p.ExportResults /\ p.OutputFile = "" THEN "Configuration"
    ELSE IF p.ExportFormat # "" /\ p.ExportFormat # "csv" THEN "Configuration"
    ELSE IF p.MaxPages < 0 THEN "Configuration"
    ELSE "nil"

\* DefaultValidator.ValidateSearchParams on a non-nil params
ValidateSearchParams(p) ==
    IF p.SearchTerm = <<>> THEN Validated(p, "Configuration")
    ELSE IF validateAccessType(p) # "nil" THEN Validated(p, "Configuration")
    ELSE IF validatePeerReview(p) # "nil" THEN Validated(p, "Configuration")
    ELSE LET y == validateYears(p)
         IN  IF y.err # "nil" THEN y
             ELSE IF y.params.ExportResults /\ validateExportParams(y.params) # "nil"
             THEN Validated(y.params, "Configuration")
             ELSE Validated([y.params EXCEPT !.Valid = TRUE], "nil")

\* the optional parameters BuildSearchURL appends after "source=" (the term
\* stands for its encoded form)
OptionalOf(p) ==
    (IF p.AccessType # "" THEN <<"&", "oa", "=", p.AccessType>> ELSE <<>>)
    \o (IF p.YearMin > 0 THEN <<"&", "pymin", "=">> \o FormatInt(p.YearMin) ELSE <<>>)
    \o (IF p.EffectiveYearMax > 0
        THEN <<"&", "pymax", "=">> \o FormatInt(p.EffectiveYearMax) ELSE <<>>)
    \o (IF p.PeerReviewed # "" THEN <<"&", "pr", "=", p.PeerReviewed>> ELSE <<>>)

\* what BuildSearchURL returns
Built(url, err) == [url |-> url, err |-> err]

\* BuildSearchURL has not been the last call
NoBuild == Built(<<>>, "none")

\* CAPESURLBuilder.BuildSearchURL on a non-nil params
BuildSearchURLOf(p) ==
    IF ~p.Valid THEN Built(<<>>, "Configuration")
    ELSE Built(BuildSearchURL(p.SearchTerm, OptionalOf(p)), "nil")

\* the params SetupFlags returns; fn holds what the most recent
\* ValidateSearchParams returned and, while it is the last call, what
\* BuildSearchURL returned
InitValidate ==
    /\ pc = "config"
    /\ collection = NewSearchCollection
    /\ MaxPagesOpt = 0 /\ PageDelayOpt = FALSE /\ outputFile = FALSE
    /\ IncludeHeadersOpt = TRUE /\ exportConfig = DefaultCSVConfig
    /\ ctxDone = FALSE /\ cancelledOn = NotCancelled
    /\ wLog = <<>> /\ detailLive = 0 /\ detail = DetailIdle
    /\ browser = BrowserIdle /\ sleepLog = <<>>
    /\ \E term \in FlagTerms, oa \in FlagAccess, pr \in FlagPeer,
          ymin \in FlagYearMin, ymax \in FlagYearMax, out \in FlagOutput,
          format \in FlagFormat, maxPages \in FlagMaxPages :
         params = SetupFlags(term, oa, pr, ymin, ymax, out, format, maxPages)
    /\ fn = [name |-> "run", validateErr |-> "none", build |-> NoBuild]
    /\ maxPagesToProcess = 0 /\ currentPage = 0 /\ links = 0
    /\ results = <<>> /\ primaryLive = FALSE /\ ret = NoRet
    /\ peRet = "none" /\ pending = "none" /\ writer = NoWriter
    /\ sink = <<>> /\ wi = 0 /\ closeErr = "none"
    /\ pageLog = <<>> /\ produced = <<>> /\ openTried = {}
    /\ openFailedAt = 0 /\ ioFailed = FALSE /\ totalResults = 0
    /\ g = GIdle

validateFrame ==
    /\ pc' = pc
    /\ UNCHANGED <<ctxDone, cancelledOn, collection, primaryLive, ret, g>>
    /\ UNCHANGED <<wLog, detailLive, detail, sessVars>>
    /\ UNCHANGED <<MaxPagesOpt, PageDelayOpt, outputFile, IncludeHeadersOpt>>
    /\ UNCHANGED <<procVars, exportVars, histVars>>

\* a holder of the params assigns one of its exported fields
SetParam ==
    /\ pc = "config"
    /\ \/ \E v \in FlagTerms : params' = [params EXCEPT !.SearchTerm = v]
       \/ \E v \in FlagAccess : params' = [params EXCEPT !.AccessType = v]
       \/ \E v \in FlagPeer : params' = [params EXCEPT !.PeerReviewed = v]
       \/ \E v \in FlagYearMin : params' = [params EXCEPT !.YearMin = v]
       \/ \E v \in FlagYearMax : params' = [params EXCEPT !.YearMax = v]
       \/ \E v \in FlagOutput : params' = [params EXCEPT !.OutputFile = v]
       \/ \E v \in BOOLEAN : params' = [params EXCEPT !.ExportResults = v]
       \/ \E v \in FlagFormat : params' = [params EXCEPT !.ExportFormat = v]
       \/ \E v \in FlagMaxPages : params' = [params EXCEPT !.MaxPages = v]
    /\ params' # params
    /\ fn' = [fn EXCEPT !.build = NoBuild]
    /\ validateFrame

\* validator.ValidateSearchParams(params)
Validate ==
    /\ pc = "config"
    /\ params' = ValidateSearchParams(params).params
    /\ fn' = [fn EXCEPT !.validateErr = ValidateSearchParams(params).err,
                         !.build = NoBuild]
    /\ validateFrame

\* urlBuilder.BuildSearchURL(params)
Build ==
    /\ pc = "config"
    /\ fn' = [fn EXCEPT !.build = BuildSearchURLOf(params)]
    /\ params' = params
    /\ validateFrame

NextValidate == SetParam \/ Validate \/ Build

SpecValidate == InitValidate /\ [][NextValidate]_vars

(***************************************************************************)
(* SpecEstimate: extractTotalResults and the page bound of Process, from   *)
(* the text of the result-count label.  The word "resultados" is a single  *)
(* symbol of the text; "x" is any other character.                         *)
(***************************************************************************)
LabelChars == {"3", "0", ".", " ", "resultados", "x"}

\* what GetElementText(ResultCountSelector) gives: no element, or its text
Labels ==
    {[present |-> FALSE, text |-> <<>>]}
    \cup {[present |-> TRUE, text |-> t] : t \in StringsUpTo(LabelChars, MaxLabelLen)}

\* strings.Replace(text, ".", "", -1)
RemoveDots(text) == SelectSeq(text, LAMBDA c : c # ".")

\* length of the run of spaces of str that starts at position i
RECURSIVE SpaceRun(_, _)
SpaceRun(str, i) ==
    IF i <= Len(str) /\ str[i] = " " THEN 1 + SpaceRun(str, i + 1) ELSE 0

\* value of a non-empty run of decimal digits
RECURSIVE DecimalValue(_)
DecimalValue(digits) ==
    LET last == (CHOOSE d \in DOMAIN DigitChars : DigitChars[d] = digits[Len(digits)]) - 1
    IN  IF Len(digits) = 1 THEN last
        ELSE 10 * DecimalValue(SubSeq(digits, 1, Len(digits) - 1)) + last

\* fmt.Sscanf(text, "%d resultados", &count): %d skips leading spaces and
\* reads a run of digits; the space of the format must consume a space or
\* find the end of the input; then the literal must follow; input after it is
\* left unread
Sscanf(text) ==
    LET lead   == SpaceRun(text, 1)
        ndig   == DigitRun(text, lead + 1)
        after  == From(text, lead + ndig + 1)
        gap    == SpaceRun(after, 1)
    IN  IF ndig = 0 THEN [ok |-> FALSE, count |-> 0]
        ELSE LET count == DecimalValue(SubSeq(text, lead + 1, lead + ndig))
             IN  IF gap = 0 /\ after # <<>> THEN [ok |-> FALSE, count |-> count]
                 ELSE IF ~HasPrefix(From(after, gap + 1), <<"resultados">>)
                 THEN [ok |-> FALSE, count |-> count]
                 ELSE [ok |-> TRUE, count |-> count]

\* how extractTotalResults ends on a label
LabelOutcome(label) ==
    IF ~label.present THEN [kind |-> "missing", n |-> 0]
    ELSE LET r == Sscanf(RemoveDots(label.text))
         IN  IF r.ok THEN [kind |-> "count", n |-> r.count]
             ELSE [kind |-> "unparsable", n |-> 0]

InitEstimate ==
    /\ pc = "estimate"
    /\ collection = NewSearchCollection
    /\ MaxPagesOpt \in 0..MaxCap
    /\ PageDelayOpt = FALSE /\ outputFile = FALSE
    /\ IncludeHeadersOpt = TRUE /\ exportConfig = DefaultCSVConfig
    /\ ctxDone = FALSE /\ cancelledOn = NotCancelled
    /\ wLog = <<>> /\ detailLive = 0 /\ detail = DetailIdle /\ SessIdle /\ params = NoParams
    /\ \E l \in Labels : fn = [name |-> "extractTotalResults", label |-> l]
    /\ maxPagesToProcess = 0 /\ currentPage = 0 /\ links = 0
    /\ results = <<>> /\ primaryLive = TRUE /\ ret = NoRet
    /\ peRet = "none" /\ pending = "none" /\ writer = NoWriter
    /\ sink = <<>> /\ wi = 0 /\ closeErr = "none"
    /\ pageLog = <<>> /\ produced = <<>> /\ openTried = {1}
    /\ openFailedAt = 0 /\ ioFailed = FALSE /\ totalResults = 0
    /\ g = GIdle

\* extractTotalResults on the label, the fallback of Process and the
\* computation of maxPagesToProcess
EstimateFromLabel ==
    /\ pc = "estimate"
    /\ fn.name = "extractTotalResults"
    /\ LET o == LabelOutcome(fn.label)
       IN  /\ totalResults' = ExtractTotalResults(o)
           /\ maxPagesToProcess' = MaxPagesToProcess(ExtractTotalResults(o), MaxPagesOpt)
    /\ currentPage' = 1
    /\ pc' = "loop_top"
    /\ UNCHANGED <<ctxDone, cancelledOn, collection, primaryLive, ret, g, links, results>>
    /\ UNCHANGED <<optVars, auxVars, exportVars, histVars>>

NextEstimate == EstimateFromLabel \/ LoopTop

SpecEstimate == InitEstimate /\ [][NextEstimate]_vars

(***************************************************************************)
(* SpecWriter: any sequence of calls on one CSVWriter, Close last          *)
(***************************************************************************)
\* records handed to WriteResult
WriterRecords == {MakeResult(1, 0, "ok"), MakeResult(1, 1, "fail")}

\* I/O outcomes WriteHeader can meet: the csv writer keeps its first error
HeaderOutcomesOf(w) ==
    IF w.err THEN {"header_write_fail"}
    ELSE {"ok", "header_write_fail", "header_flush_fail"}

\* one call on the writer, as the caller saw it: header is what the
\* WriteHeader inside the call returned ("none": it made no such call)
Call(op, r, header, rows) == [op |-> op, ret |-> r, header |-> header, rows |-> rows]

InitWriter ==
    /\ pc = "writer"
    /\ collection = NewSearchCollection
    /\ MaxPagesOpt = 0 /\ PageDelayOpt = FALSE /\ outputFile = FALSE
    /\ IncludeHeadersOpt = TRUE
    /\ exportConfig \in {[IncludeHeader |-> b] : b \in BOOLEAN}
    /\ ctxDone = FALSE /\ cancelledOn = NotCancelled
    /\ AuxIdle
    /\ maxPagesToProcess = 0 /\ currentPage = 0 /\ links = 0
    /\ results = <<>> /\ primaryLive = FALSE /\ ret = NoRet
    /\ peRet = "none" /\ pending = "none" /\ writer = NoWriter
    /\ sink = <<>> /\ wi = 0 /\ closeErr = "none"
    /\ pageLog = <<>> /\ produced = <<>> /\ openTried = {}
    /\ openFailedAt = 0 /\ ioFailed = FALSE /\ totalResults = 0
    /\ g = GIdle

wFrame ==
    /\ UNCHANGED <<ctxDone, cancelledOn, collection, primaryLive, ret, g>>
    /\ UNCHANGED <<peRet, pending, wi, closeErr, ioFailed, exportConfig>>
    /\ UNCHANGED <<detailLive, detail, fn, sessVars>>
    /\ UNCHANGED <<procVars, optVars, histVars>>

\* w.Initialize(), called once
WInitialize ==
    /\ pc = "writer"
    /\ wLog = <<>>
    /\ \E o \in InitOutcomesOf(exportConfig) :
         /\ writer' = InitializeWriter(writer, exportConfig, o)
         /\ sink' = sink \o InitializeRows(writer, exportConfig, o)
         /\ wLog' = Append(wLog,
                Call("Initialize", InitializeReturn(writer, exportConfig, o),
                     IF exportConfig.IncludeHeader /\ o \notin {"mkdir_fail", "create_fail"}
                     THEN WriteHeaderReturn(Opened(writer), o) ELSE "none",
                     Len(InitializeRows(writer, exportConfig, o))))
    /\ pc' = pc
    /\ wFrame

\* w.WriteHeader()
WWriteHeader ==
    /\ pc = "writer"
    /\ Len(wLog) < MaxCalls
    /\ IF ~writer.init
       THEN /\ writer' = writer
            /\ sink' = sink
            /\ wLog' = Append(wLog, Call("WriteHeader", "Config", "Config", 0))
       ELSE \E o \in HeaderOutcomesOf(writer) :
            /\ writer' = WriteHeader(writer, o)
            /\ sink' = sink \o HeaderRows(writer, o)
            /\ wLog' = Append(wLog,
                   Call("WriteHeader", WriteHeaderReturn(writer, o),
                        WriteHeaderReturn(writer, o), Len(HeaderRows(writer, o))))
    /\ pc' = pc
    /\ wFrame

\* w.WriteResult(r)
WWriteResult ==
    /\ pc = "writer"
    /\ Len(wLog) < MaxCalls
    /\ \E r \in WriterRecords :
       IF ~writer.init
       THEN /\ writer' = writer
            /\ sink' = sink
            /\ wLog' = Append(wLog, Call("WriteResult", "Config", "none", 0))
       ELSE \E ok \in (IF writer.err THEN {FALSE} ELSE BOOLEAN) :
            IF ok
            THEN /\ sink' = Append(sink, RowOf(r))
                 /\ writer' = [writer EXCEPT !.rowCount = @ + 1]
                 /\ wLog' = Append(wLog, Call("WriteResult", "nil", "none", 1))
            ELSE /\ sink' = sink
                 /\ writer' = [writer EXCEPT !.err = TRUE]
                 /\ wLog' = Append(wLog, Call("WriteResult", "External", "none", 0))
    /\ pc' = pc
    /\ wFrame

\* w.Close(), the last call
WClose ==
    /\ pc = "writer"
    /\ \E fileCloseOk \in BOOLEAN :
         /\ writer' = CloseWriter(writer, fileCloseOk)
         /\ wLog' = Append(wLog,
                Call("Close", IF CloseFails(writer, fileCloseOk) THEN "External" ELSE "nil",
                     "none", 0))
    /\ sink' = sink
    /\ pc' = "writer_closed"
    /\ wFrame

NextWriter == WInitialize \/ WWriteHeader \/ WWriteResult \/ WClose

SpecWriter == InitWriter /\ [][NextWriter]_vars

(***************************************************************************)
(* Properties                                                              *)
(***************************************************************************)
Range(f) == {f[i] : i \in DOMAIN f}

Min(a, b) == IF a < b THEN a ELSE b

\* Process has returned
ProcessReturned == ret # NoRet

\* number of result anchors ExtractLinks found on page P (0 when P was not
\* extracted or ExtractLinks failed)
AnchorsFoundOn(P) ==
    IF \E k \in DOMAIN pageLog : pageLog[k][1] = P /\ pageLog[k][2] > 0
    THEN pageLog[CHOOSE k \in DOMAIN pageLog : pageLog[k][1] = P][2]
    ELSE 0

\* indices of the records of page P in the Collection
IndicesOn(P) == {i \in DOMAIN collection.Results : collection.Results[i].PageFound = P}

\* page indices a run can reach
PageIndices == 0..(TotalPagesOf(DefaultTotalResults) + 1)

\* C1: after any run of Process, for every page index P the records with
\* PageFound = P have pairwise distinct Positions that are exactly 1..N,
\* N the number of anchors found on page P.
C1_PositionsFormRange ==
    ProcessReturned =>
        \A P \in PageIndices :
            /\ \A i, j \in IndicesOn(P) :
                   i # j => collection.Results[i].Position # collection.Results[j].Position
            /\ {collection.Results[i].Position : i \in IndicesOn(P)} = 1..AnchorsFoundOn(P)

\* a finished run with two anchors on page 1 and one anchor on page 2
C1_Witness ==
    /\ ProcessReturned
    /\ AnchorsFoundOn(1) = 2 /\ AnchorsFoundOn(2) = 1
    /\ Cardinality(IndicesOn(1)) = 2 /\ Cardinality(IndicesOn(2)) = 1

\* C2: in every state reachable from NewSearchCollection by AddResult and
\* AddResults calls (empty lists included), TotalResults = Len(Results).
C2_TotalResultsIsLength ==
    collection.TotalResults = Len(collection.Results)

\* three records appended
C2_Witness ==
    /\ pc = "coll"
    /\ Len(collection.Results) = 3
    /\ collection.TotalResults = 3

\* a run in which every page opened and yielded its records, every
\* enrichment succeeded and the export met no I/O failure
NormalRun ==
    /\ pc = "done"
    /\ outputFile
    /\ ret = ReturnFrom("collection", "none")
    /\ openFailedAt = 0
    /\ {pageLog[k][1] : k \in DOMAIN pageLog} = 1..maxPagesToProcess
    /\ \A k \in DOMAIN pageLog : pageLog[k][2] >= 0
    /\ \A i \in DOMAIN collection.Results : collection.Results[i].Author = "A"
    /\ ~ioFailed

\* sum of the per-page record counts
RECURSIVE SumAnchors(_)
SumAnchors(k) == IF k = 0 THEN 0 ELSE pageLog[k][2] + SumAnchors(k - 1)

\* C3: a normal run with an output file and bound B ends with TotalPages = B,
\* TotalResults = sum of the per-page record counts, and the export file
\* received one header row followed by one row per record, in Collection order.
C3_NormalRunExportsAll ==
    NormalRun =>
        /\ peRet = "nil"
        /\ collection.TotalPages = maxPagesToProcess
        /\ collection.TotalResults = SumAnchors(Len(pageLog))
        /\ sink = <<HeaderRow>> \o [i \in 1..collection.TotalResults |->
                                       RowOf(collection.Results[i])]

\* a normal run over two pages of two records each
C3_Witness ==
    /\ NormalRun
    /\ MaxPagesOpt = 2
    /\ collection.TotalPages = 2
    /\ collection.TotalResults = 4
    /\ Len(sink) = 5

\* least n with n * d >= a
CeilDiv(a, d) == CHOOSE n \in 0..a : n * d >= a /\ (n = 0 \/ (n - 1) * d < a)

\* C4: the effective bound is min(ceil(total / 30), MaxPages) when
\* MaxPages > 0 and ceil(total / 30) when MaxPages = 0, for every total >= 0;
\* a cap larger than the estimate never raises the bound.
C4_EffectiveBound ==
    pc = "bound_out" =>
        /\ MaxPagesOpt > 0 =>
              maxPagesToProcess = Min(CeilDiv(totalResults, ResultsPerPage), MaxPagesOpt)
        /\ MaxPagesOpt = 0 =>
              maxPagesToProcess = CeilDiv(totalResults, ResultsPerPage)
        /\ maxPagesToProcess <= CeilDiv(totalResults, ResultsPerPage)

\* total = 3016 with MaxPages = 5 gives the bound 5
C4_Witness ==
    /\ pc = "bound_out"
    /\ totalResults = 3016
    /\ MaxPagesOpt = 5
    /\ maxPagesToProcess = 5

\* MaxAttempts of a goToNextPage call
AttemptLimit == IF g.RetryAttempts <= 0 THEN 3 ELSE g.RetryAttempts

FailedSteps == {"click_fail", "nav_fail", "elem_fail"}

\* C5: goToNextPage with MaxAttempts = M (3 when RetryAttempts <= 0) returns
\* success as soon as some attempt k <= M completes click, navigation wait and
\* result-marker wait, whatever failed before; it returns a failure only after
\* exactly M failed attempts; it never clicks more than M times.
C5_RetryBound ==
    g.pc # "idle" =>
        /\ g.clicks <= AttemptLimit
        /\ Len(g.hist) <= AttemptLimit
        /\ \A k \in DOMAIN g.hist :
              g.hist[k] = "ok" =>
                 /\ k = Len(g.hist)
                 /\ g.pc = "returned" /\ g.ret = "nil"
        /\ g.ret = "nil" =>
              /\ g.hist # <<>> /\ g.hist[Len(g.hist)] = "ok"
              /\ \A k \in 1..(Len(g.hist) - 1) : g.hist[k] \in FailedSteps
        /\ g.ret = "browser" =>
              /\ Len(g.hist) = AttemptLimit
              /\ \A k \in DOMAIN g.hist : g.hist[k] \in FailedSteps
        /\ (g.pc = "returned") = (g.ret # "none")
        /\ Len(g.hist) = AttemptLimit => g.pc = "returned"

\* attempts 1 and 2 fail, attempt 3 succeeds, with the fallback limit
C5_Witness ==
    /\ g.pc = "returned"
    /\ g.RetryAttempts = 0
    /\ g.ret = "nil"
    /\ g.hist = <<"click_fail", "nav_fail", "ok">>

\* page indices whose extraction was started
PagesExtracted == {pageLog[k][1] : k \in DOMAIN pageLog}

C7_CancelReturnsPartial ==
    /\ [](ret.err = "ctx" =>
            /\ ret.coll = "collection"
            /\ ctxDone
            /\ pc \notin ProcessPcs
            /\ collection.Results = produced
            /\ collection.TotalPages = currentPage - 1
            /\ PagesExtracted = 1..(currentPage - 1))
    /\ [][(pc = "loop_top" /\ ctxDone /\ currentPage <= maxPagesToProcess
            /\ pc' # pc)
           => (/\ pc' = "proc_ret"
               /\ ret' = ReturnFrom("collection", "ctx")
               /\ collection' = collection)]_vars

\* cancelled after page 1 gave two records
C7_Witness ==
    /\ ret = ReturnFrom("collection", "ctx")
    /\ pc = "done"
    /\ collection.TotalPages = 1
    /\ Len(collection.Results) = 2
    /\ maxPagesToProcess > 1

\* C8: a primary-session open failure, on the initial URL or on a later page,
\* makes Process return both the partial Collection (non-nil) and a non-nil
\* error.
C8_OpenFailureReturnsBoth ==
    (ProcessReturned /\ openFailedAt > 0) =>
        /\ ret.coll = "collection"
        /\ ret.err # "none"

\* the rows of the Collection, after the header
ExportedRows ==
    <<HeaderRow>> \o [i \in 1..Len(collection.Results) |-> RowOf(collection.Results[i])]

\* C9: when a run is cancelled after at least one page was collected, the
\* export file still receives the records gathered before the cancellation.
C9_PartialExportedOnCancel ==
    (/\ pc = "done"
     /\ outputFile
     /\ ret.err = "ctx"
     /\ collection.TotalPages >= 1
     /\ Len(collection.Results) >= 1
     /\ ~ioFailed)
    => sink = ExportedRows

\* C10: every export failure (creating the writer, Initialize, WriteCollection,
\* Close) makes ProcessAndExport return a non-nil error.
C10_ExportFailureAborts ==
    (pc = "done" /\ ioFailed) => peRet \notin {"nil", "none"}

\* calls that reached WriteHeader, explicit or through Initialize
HeaderCalls == {k \in DOMAIN wLog : wLog[k].header # "none"}

\* the first call that reached WriteHeader returned no error
FirstHeaderCallSucceeded ==
    /\ HeaderCalls # {}
    /\ wLog[CHOOSE k \in HeaderCalls : \A j \in HeaderCalls : k <= j].header = "nil"

\* number of header rows in the output
HeaderRowCount == Cardinality({i \in DOMAIN sink : sink[i] = HeaderRow})

C12_DetailSessionClosedOnReturn ==
    \A k \in DOMAIN detail.hist : ~detail.hist[k].live

\* page cancelledOn is no longer in flight
CancelledPageFinished ==
    /\ cancelledOn > 0
    /\ ~(pc \in InFlightPcs /\ currentPage = cancelledOn)

\* C13: cancellation is observed only at the top of the page loop. If the
\* token becomes done while page P is in flight, every anchor of P is still
\* extracted, every record of P enriched and appended and TotalPages advanced
\* to P before the run stops; a token that becomes done during the last page
\* of the bound is never observed and the run ends with no error.
C13_CancellationOnlyAtLoopTop ==
    /\ [](CancelledPageFinished =>
            /\ cancelledOn \in PagesExtracted
            /\ Cardinality(IndicesOn(cancelledOn)) = AnchorsFoundOn(cancelledOn)
            /\ collection.TotalPages = cancelledOn
            /\ ProcessReturned =>
                  ret = IF cancelledOn < maxPagesToProcess
                        THEN ReturnFrom("collection", "ctx")
                        ELSE ReturnFrom("collection", "none"))
    /\ [][(ret' # ret /\ ret'.err = "ctx") => (pc = "loop_top" /\ ctxDone)]_vars
    /\ [][(ctxDone /\ pc \in ProcessPcs \ {"loop_top"} /\ pc' = "proc_ret")
            => ret'.err # "ctx"]_vars

\* the token became done while the second record of page 1 was enriched;
\* page 1 was finished and the run stopped at the top of page 2
C13_Witness ==
    /\ cancelledOn = 1
    /\ maxPagesToProcess = 2
    /\ AnchorsFoundOn(1) = 2
    /\ Cardinality(IndicesOn(1)) = 2
    /\ collection.TotalPages = 1
    /\ ret = ReturnFrom("collection", "ctx")
    /\ pc = "proc_ret"

\* C14: at every moment at most one primary session and at most one detail
\* session is live; a detail session is opened only after the previous one
\* has been fully closed. (While a page is extracted its one primary session
\* stays open; the detail sessions are the ones counted here.)
C14_AtMostOneSessionLive ==
    detailLive <= 1

\* listing pages on which ExtractLinks matched no anchor
EmptyPages == {pageLog[k][1] : k \in {j \in DOMAIN pageLog : pageLog[j][2] = 0}}

\* C16: a listing page with zero matching anchors is not an error: the
\* extractor returns an empty list and no error, zero records are appended
\* for the page, no detail session is opened for it, and Process goes on with
\* the next page index instead of stopping.
C16_EmptyPageTolerated ==
    /\ [](\A P \in EmptyPages :
            /\ IndicesOn(P) = {}
            /\ \A i \in DOMAIN produced : produced[i].PageFound # P
            /\ currentPage = P => (results = <<>> /\ pc # "enrich")
            /\ ret.err # "browser"
            /\ (ProcessReturned /\ P < maxPagesToProcess) =>
                   (ret.err = "ctx" \/ (P + 1) \in openTried))
    /\ [][(pc = "extract" /\ currentPage \in EmptyPages')
            => (pc' = "add_results" /\ ret' = ret /\ results' = <<>>)]_vars

\* page 1 showed no anchor, page 2 was opened and gave two records
C16_Witness ==
    /\ ProcessReturned
    /\ 1 \in EmptyPages
    /\ 2 \in openTried
    /\ AnchorsFoundOn(2) = 2
    /\ Cardinality(IndicesOn(2)) = 2
    /\ ret = ReturnFrom("collection", "none")

\* the list-level fields of the record built for anchor i of page P
ListFields(r) == [Title |-> r.Title, URL |-> r.URL, ID |-> r.ID, Source |-> r.Source,
                  PageFound |-> r.PageFound, Position |-> r.Position]

AnchorFields(P, i) == [Title |-> AnchorId(P, i), URL |-> AnchorId(P, i),
                       ID |-> AnchorId(P, i), Source |-> "CAPES",
                       PageFound |-> P, Position |-> i]

\* the enrichment of record k met a failure
EnrichmentFailed(k) ==
    \/ detail.hist[k].open # "ok"
    \/ detail.hist[k].marker = "timeout"
    \/ results[k].Author = ""
    \/ results[k].Year = ""

\* C15: a failure of the enrichment of one record (session cannot open,
\* marker wait times out, author or year unreadable) never aborts the page:
\* the record is appended with its list-level fields unchanged and the
\* unobtained Author/Year empty, and every remaining record of the page is
\* still enriched and appended.
C15_EnrichmentFailureSwallowed ==
    /\ links > 0 => ret.err = "none"
    /\ Len(detail.hist) = Len(results)
    /\ \A k \in DOMAIN results :
          /\ ListFields(results[k]) = AnchorFields(currentPage, k)
          /\ detail.hist[k].open # "ok" =>
                 results[k].Author = "" /\ results[k].Year = ""
          /\ results[k].Author \in {"A", ""}
          /\ results[k].Year \in {"Y", ""}
    /\ (pc = "page_ret" /\ links > 0) =>
          /\ ret = ReturnFrom("results", "none")
          /\ Len(results) = links

\* three anchors: the first session does not open, the second times out on
\* the marker and reads no year, the third is enriched in full
C15_Witness ==
    /\ pc = "page_ret"
    /\ links = 3 /\ Len(results) = 3
    /\ detail.hist[1].open = "navigate_fail"
    /\ detail.hist[2].marker = "timeout"
    /\ results[2].Author = "A" /\ results[2].Year = ""
    /\ results[3].Author = "A" /\ results[3].Year = "Y"
    /\ \A k \in 1..2 : EnrichmentFailed(k)

\* the query string of a URL: what follows the first "?"
QueryOf(url) ==
    IF Contains(url, <<"?">>) THEN From(url, Index(url, <<"?">>) + 1) ELSE <<>>

\* the "&"-separated parameters of a query string, in order
RECURSIVE ParamsOf(_)
ParamsOf(q) ==
    IF q = <<>> THEN <<>>
    ELSE LET amp == Index(q, <<"&">>)
         IN  IF amp = 0 THEN <<q>>
             ELSE <<SubSeq(q, 1, amp - 1)>> \o ParamsOf(From(q, amp + 1))

\* key and value of one parameter
KeyOf(param) ==
    IF Contains(param, <<"=">>) THEN SubSeq(param, 1, Index(param, <<"=">>) - 1)
    ELSE param

ValueOf(param) ==
    IF Contains(param, <<"=">>) THEN From(param, Index(param, <<"=">>) + 1)
    ELSE <<>>

\* values of the query parameters of url whose key is key, in order
QueryValues(url, key) ==
    LET ps == ParamsOf(QueryOf(url))
    IN  SelectSeq([k \in DOMAIN ps |-> <<KeyOf(ps[k]), ValueOf(ps[k])>>],
                  LAMBDA kv : kv[1] = key)

\* the value of the query key "id", "" when the URL has no such parameter
IdParamOf(url) ==
    LET vs == QueryValues(url, <<"i", "d">>)
    IN  IF vs = <<>> THEN <<>> ELSE vs[1][2]

\* C17: for every URL string extractIDFromURL returns the value of the query
\* key "id" (the text after "id=" up to the next "&" or the end) and ""
\* whenever the URL has no "id" query parameter.
C17_IdIsQueryValue ==
    (pc = "fn_out" /\ fn.name = "extractIDFromURL") =>
        fn.out = IdParamOf(fn.in)

\* letters a URL scheme is made of, among HrefChars
SchemeLetters == {"h", "t", "p", "f"}

\* the href starts with a scheme: letters followed by ":"
HasScheme(href) ==
    \E k \in 2..Len(href) :
        /\ href[k] = ":"
        /\ \A j \in 1..(k - 1) : href[j] \in SchemeLetters

\* C18: absoluteURL returns a URL that already has a scheme unchanged, turns
\* a URL beginning with "/" into base + URL and any other URL into
\* base + "/" + URL.
C18_AbsoluteURLResolution ==
    (pc = "fn_out" /\ fn.name = "absoluteURL") =>
        fn.out = IF HasScheme(fn.in) THEN fn.in
                 ELSE IF HasPrefix(fn.in, <<"/">>) THEN CapesBaseURL \o fn.in
                 ELSE CapesBaseURL \o <<"/">> \o fn.in

C20_NoHeadersFlagHonoured ==
    (/\ pc = "done"
     /\ outputFile
     /\ ~IncludeHeadersOpt
     /\ ret = ReturnFrom("collection", "none")
     /\ ~ioFailed)
    => /\ HeaderRowCount = 0
       /\ Len(sink) = Len(collection.Results)
       /\ Len(collection.Results) > 0 => sink[1] = RowOf(collection.Results[1])

(***************************************************************************)
(* TotalPages and the records of the Collection                            *)
(***************************************************************************)
\* largest member of a set of naturals, 0 for the empty set
MaxOf(S) == IF S = {} THEN 0 ELSE CHOOSE x \in S : \A y \in S : y <= x

\* highest PageFound among the records of the Collection, 0 without records
MaxPageFound == MaxOf({collection.Results[i].PageFound : i \in DOMAIN collection.Results})

\* pages whose iteration of the page loop got past UpdatePageCount
PagesCompleted ==
    IF pc \in {"enrich", "add_results", "update_page_count"}
    THEN PagesExtracted \ {currentPage}
    ELSE PagesExtracted

\* C21 as stated: in every state of a run, TotalPages equals the highest
\* PageFound among the records of Results, and 0 when Results is empty.
C21_Original_TotalPagesIsMaxPageFound ==
    collection.TotalPages = MaxPageFound

\* C21 amended: in every state of a run, TotalPages is the index of the last
\* page whose loop iteration reached UpdatePageCount, whether or not that page
\* gave records; the highest PageFound among the records never exceeds it,
\* except between the append of a page's records and the UpdatePageCount that
\* follows, where it is one more.
C21_TotalPagesCountsProcessedPages ==
    /\ collection.TotalPages = MaxOf(PagesCompleted)
    /\ PagesCompleted = 1..collection.TotalPages
    /\ IF pc = "update_page_count"
       THEN MaxPageFound <= collection.TotalPages + 1
       ELSE MaxPageFound <= collection.TotalPages

\* a finished run whose second page gave no record after a first page with two
C21_Witness ==
    /\ pc = "done"
    /\ collection.TotalPages = 2
    /\ MaxPageFound = 1
    /\ Len(collection.Results) = 2
    /\ pageLog = <<<<1, 2>>, <<2, 0>>>>

(***************************************************************************)
(* Total-page estimation                                                   *)
(***************************************************************************)
\* the text reads as a number of results: digits (thousands separators
\* aside), at least one space, then the word
ReadsAsCount(text) ==
    LET t == RemoveDots(text)
    IN  \E a \in 0..Len(t), b \in 1..Len(t), c \in 1..Len(t) :
           /\ a < b /\ b < c
           /\ \A i \in 1..a : t[i] = " "
           /\ \A i \in (a + 1)..b : IsDigit(t[i])
           /\ \A i \in (b + 1)..(c - 1) : t[i] = " "
           /\ c > b + 1
           /\ t[c] = "resultados"

\* C22: when the result-count label is missing or its text does not read as
\* a number of results, Process goes on with the default result count: it
\* enters the page loop at page 1 with the bound derived from the default and
\* returns nothing at that point.
C22_EstimationNeverAborts ==
    (pc # "estimate" /\ (~fn.label.present \/ ~ReadsAsCount(fn.label.text))) =>
        /\ totalResults = DefaultTotalResults
        /\ maxPagesToProcess =
              (IF MaxPagesOpt > 0 /\ MaxPagesOpt < CeilDiv(DefaultTotalResults, ResultsPerPage)
               THEN MaxPagesOpt
               ELSE CeilDiv(DefaultTotalResults, ResultsPerPage))
        /\ currentPage = 1
        /\ pc \in {"loop_top", "extract"}
        /\ ret = NoRet

\* the label reads "30 x" and page 1 of 4 is about to be extracted
C22_Witness ==
    /\ pc = "extract"
    /\ fn.label = [present |-> TRUE, text |-> <<"3", "0", " ", "x">>]
    /\ MaxPagesOpt = 0
    /\ totalResults = DefaultTotalResults
    /\ maxPagesToProcess = 4

\* the label is missing and the bound is the -max-pages option
C22_WitnessMissing ==
    /\ pc = "extract"
    /\ ~fn.label.present
    /\ MaxPagesOpt = 2
    /\ maxPagesToProcess = 2

(***************************************************************************)
(* Attempts of goToNextPage                                                *)
(***************************************************************************)
\* the step taken from the current state failed (scrolls aside)
StepFailed ==
    /\ g.pc \in {"click", "wait_nav", "wait_elem"}
    /\ Len(g'.hist) = Len(g.hist) + 1
    /\ g'.hist[Len(g'.hist)] # "ok"

\* C23 as stated: the failure of any of the five steps, the scrolls included,
\* ends the attempt and is followed by a backoff sleep before attempt+1.
C23_Original_AnyFailureBacksOff ==
    /\ g.scrollWarn => g.pc # "click"
    /\ g.sleeps = Len(g.hist) - (IF g.pc = "returned" THEN 1 ELSE 0)

\* C23 amended: a failed click, navigation wait or result-marker wait ends the
\* attempt; while attempts remain the whole sequence restarts from the scrolls
\* as attempt+1, and on the last attempt goToNextPage returns a browser error.
\* Only a failed click is followed by a backoff sleep.  A failed scroll is
\* logged and the same attempt goes on with the click.
C23_FailedStepRestartsAttempt ==
    [][/\ g.pc = "scroll" =>
              /\ g'.pc = "click"
              /\ g'.attempt = g.attempt
              /\ g'.sleeps = g.sleeps
              /\ g'.hist = g.hist
       /\ StepFailed =>
              IF g.attempt < g.maxRetries
              THEN /\ g'.pc = "scroll"
                   /\ g'.attempt = g.attempt + 1
                   /\ g'.sleeps = g.sleeps + (IF g.pc = "click" THEN 1 ELSE 0)
              ELSE /\ g'.pc = "returned"
                   /\ g'.ret = "browser"
                   /\ g'.sleeps = g.sleeps]_vars

\* attempt 1 ended on a failed navigation wait without a sleep; in attempt 2
\* a scroll failed and the click is about to be made
C23_Witness ==
    /\ g.hist = <<"nav_fail">>
    /\ g.attempt = 2
    /\ g.sleeps = 0
    /\ g.scrollWarn
    /\ g.pc = "click"

\* no click failed so far: the k-th navigation wait belongs to attempt k
NoClickFailed == \A i \in DOMAIN g.hist : g.hist[i] # "click_fail"

\* C24: for every configuration of NavigationTimeout, the timeout handed to
\* the navigation wait on attempt k is the one of attempt k-1 plus the fixed
\* increment, for every k from 2 to the attempt limit.
C24_NavigationTimeoutGrows ==
    NoClickFailed =>
        \A k \in 2..Len(g.navTimeouts) :
            g.navTimeouts[k] = g.navTimeouts[k - 1] + TimeoutIncrement

(***************************************************************************)
(* Politeness delay                                                        *)
(***************************************************************************)
\* pages whose loop iteration is over up to the delay test: the sleep after
\* them, if any, has been taken
PagesLeft ==
    IF pc = "delay" THEN PagesCompleted \ {currentPage} ELSE PagesCompleted

\* Process slept in this step
Slept == sleepLog' # sleepLog

\* the Open of a page after the first was attempted in this step
OpenedLater(p) == p > 1 /\ p \in openTried' /\ p \notin openTried

\* C25: with PageDelay > 0, after page i has been processed Process sleeps
\* once if and only if i is less than the effective bound; the sleep comes
\* after page i's records are in the Collection and before the session of
\* page i+1 is opened; no sleep follows the final page, and a normally
\* completed run over B pages sleeps exactly B-1 times.  Without a PageDelay
\* Process never sleeps.
C25_DelayExactlyBetweenPages ==
    /\ [](/\ DOMAIN sleepLog = 1..Len(sleepLog)
          /\ \A j \in DOMAIN sleepLog : sleepLog[j] = j
          /\ Range(sleepLog) =
                IF PageDelayOpt
                THEN {p \in PagesLeft : p < maxPagesToProcess}
                ELSE {}
          /\ (/\ PageDelayOpt /\ maxPagesToProcess >= 1
              /\ ret = ReturnFrom("collection", "none") /\ openFailedAt = 0)
             => Len(sleepLog) = maxPagesToProcess - 1)
    /\ [][/\ Slept =>
              /\ sleepLog' = Append(sleepLog, currentPage)
              /\ collection.Results = produced
              /\ Cardinality(IndicesOn(currentPage)) = AnchorsFoundOn(currentPage)
              /\ collection.TotalPages = currentPage
              /\ currentPage + 1 \notin openTried
          /\ \A p \in PageIndices :
                (OpenedLater(p) /\ PageDelayOpt) => sleepLog[Len(sleepLog)] = p - 1]_vars

\* a run over four pages with a PageDelay ended normally after three sleeps
C25_Witness ==
    /\ pc = "done"
    /\ PageDelayOpt
    /\ maxPagesToProcess = 4
    /\ ret = ReturnFrom("collection", "none") /\ openFailedAt = 0
    /\ sleepLog = <<1, 2, 3>>
    /\ Len(collection.Results) = 3

(***************************************************************************)
(* The Collection is append-only                                           *)
(***************************************************************************)
\* a is a prefix of b
IsPrefixOf(a, b) == Len(a) <= Len(b) /\ SubSeq(b, 1, Len(a)) = a

\* C26: across every step of a run (failed page opens, failed extractions,
\* failed enrichments, cancellation and the export hand-off included) the
\* previous Results sequence is a prefix of the next one, and no step taken
\* after Process has returned, the writing of the Collection included, changes
\* the Collection.
C26_ResultsAppendOnly ==
    [][/\ IsPrefixOf(collection.Results, collection'.Results)
       /\ pc \notin (ProcessPcs \cup {"start"}) => collection' = collection]_vars

\* a run was exported whose context expired unseen during its last page:
\* page 1 gave two records, one of them without metadata, page 2 could not be
\* extracted, and the file has the header and both rows
C26_Witness ==
    /\ pc = "done"
    /\ peRet = "nil"
    /\ ctxDone
    /\ pageLog = <<<<1, 2>>, <<2, -1>>>>
    /\ Len(collection.Results) = 2
    /\ \E i \in DOMAIN collection.Results : collection.Results[i].Author = ""
    /\ Len(sink) = 3

(***************************************************************************)
(* Sequential processing                                                   *)
(***************************************************************************)
\* C27: processing is strictly sequential.  When the extraction of a page
\* returns, which is before the session of the next page is opened, every
\* record of the page has been appended and the detail session of each has
\* been opened and closed; within the page, the enrichment of a record starts
\* only when the enrichments of the records before it have finished, their
\* sessions closed and their records appended.
C27_StrictlySequential ==
    /\ Len(detail.hist) = Len(results)
    /\ pc = "page_link" => detailLive = 0
    /\ (pc = "page_ret" /\ ret.err = "none") =>
           /\ Len(results) = links
           /\ detailLive = 0

(***************************************************************************)
(* The primary session during detail visits                                *)
(***************************************************************************)
\* C28: detail visits leave the primary session untouched.  The session an
\* enrichment launches is not the primary one, and over the whole extraction
\* of a page, whatever the outcome of each enrichment, the primary session
\* stays open on the listing page: its status, its URL and the calls made on
\* it are the same after extractMetadataForResult returns as before.
C28_PrimaryUntouchedByDetail ==
    /\ [](/\ primaryLive
          /\ browser.browser = 1
          /\ browser.page
          /\ browser.url = currentPage
          /\ browser.live = {1}
          /\ Len(browser.log) = 1)
    /\ [][browser' = browser /\ primaryLive' = primaryLive]_vars

\* three enrichments have returned: one whose detail page could not be
\* navigated to, one that timed out on the marker, one whose browser could not
\* be launched
C28_Witness ==
    /\ pc = "page_ret"
    /\ Len(detail.hist) = 3
    /\ detail.hist[1].open = "navigate_fail"
    /\ detail.hist[2].open = "ok" /\ detail.hist[2].marker = "timeout"
    /\ detail.hist[3].open = "launch_fail"
    /\ detailLive = 1
    /\ browser.url = currentPage /\ browser.live = {1}

(***************************************************************************)
(* The primary session over a run                                          *)
(***************************************************************************)
\* positions of the log of the primary browser holding a call of the kind
CallsOf(op) == {k \in DOMAIN browser.log : browser.log[k].op = op}

\* C29: fresh session per page.  Page 1 is extracted from the initially
\* opened session, with no call in between.  For every page index i > 1 that
\* is reached, Process first calls Close on the session page i-1 was extracted
\* from and then opens a new session on page i's URL, once each and in that
\* order, and page i is extracted from that new session.  A Close that failed
\* to close is still followed by the Open.
C29_FreshSessionPerPage ==
    LET L == browser.log
    IN  /\ \A k \in CallsOf("Extract") :
               /\ k >= 2
               /\ L[k - 1] = BrowserCall("Open", L[k].page, "ok", L[k].sess)
               /\ L[k].page = 1 => k = 2
        /\ \A k \in CallsOf("Open") :
               /\ L[k].page > 1 =>
                      /\ k >= 3
                      /\ L[k - 2] = BrowserCall("Extract", L[k].page - 1, "none", L[k - 2].sess)
                      /\ L[k - 1].op = "Close"
                      /\ L[k - 1].sess = L[k - 2].sess
               /\ L[k].page = 1 => k = 1
               /\ \A j \in CallsOf("Open") : L[j].page = L[k].page => j = k
               /\ L[k].out = "ok" =>
                      /\ L[k].sess # 0
                      /\ \A j \in 1..(k - 1) : L[j].sess # L[k].sess
        /\ \A k \in CallsOf("Close") :
               k < Len(L) =>
                   /\ L[k + 1].op = "Open"
                   /\ L[k + 1].page = L[k - 1].page + 1

\* a run over three pages has returned; the Close of the first page's
\* session ran into its time limit and the second page was opened all the same
C29_Witness ==
    /\ pc = "run_ret"
    /\ Len(browser.log) = 9
    /\ CallsOf("Extract") = {2, 5, 8}
    /\ browser.log[3] = BrowserCall("Close", 0, "timeout", 1)
    /\ browser.log[4] = BrowserCall("Open", 2, "ok", 2)
    /\ browser.log[6] = BrowserCall("Close", 0, "closed", 2)
    /\ browser.log[8] = BrowserCall("Extract", 3, "none", 3)

\* C30: once the browser object is created in run(), whenever run() returns
\* (normal completion, extraction error, cancellation, export error, view
\* mode) no primary session is live, and each session that was opened has
\* been closed exactly once.
C30_PrimaryCleanupOnEveryExit ==
    pc = "run_ret" =>
        /\ browser.live = {}
        /\ browser.browser = 0
        /\ \A n \in 1..browser.launched :
               \/ Cardinality({k \in CallsOf("Close") :
                                  browser.log[k].sess = n /\ browser.log[k].out = "closed"}) = 1
               \/ \E k \in CallsOf("Open") :
                      browser.log[k].sess = n /\ browser.log[k].out = "page_fail"

(***************************************************************************)
(* The export file handle                                                  *)
(***************************************************************************)
\* C31: once Initialize has created the output file, the file is closed
\* before ProcessAndExport returns, on every path: also when Initialize
\* fails on the header after creating the file and when WriteCollection
\* fails.
C31_ExportFileClosedOnReturn ==
    pc = "done" => ~writer.fileOpen

(***************************************************************************)
(* The final page count                                                    *)
(***************************************************************************)
\* page indices whose listing session was opened successfully
PagesOpened == openTried \ {openFailedAt}

\* C32: when Process returns, TotalPages is the number of page indices whose
\* listing session was opened and whose extraction was attempted; an index
\* whose session failed to open, or that was never reached because of
\* cancellation or of the failed open, is not counted.
C32_TotalPagesCountsAttemptedPages ==
    ProcessReturned =>
        /\ collection.TotalPages = Cardinality(PagesExtracted \cap PagesOpened)
        /\ PagesExtracted \subseteq PagesOpened
        /\ openFailedAt > 0 => collection.TotalPages < openFailedAt
        /\ \A p \in PageIndices :
               p \notin PagesExtracted => (p = 0 \/ p > collection.TotalPages)

\* Process returned after the Open of page 3 of 4 failed: two pages counted
C32_Witness ==
    /\ ProcessReturned
    /\ openFailedAt = 3
    /\ maxPagesToProcess = 4
    /\ collection.TotalPages = 2
    /\ Len(collection.Results) = 2

\* Process returned on cancellation seen before page 2 of 4: one page counted
C32_WitnessCancelled ==
    /\ ret = ReturnFrom("collection", "ctx")
    /\ maxPagesToProcess = 4
    /\ collection.TotalPages = 1
    /\ openTried = {1}

(***************************************************************************)
(* Category of the error a run surfaces                                    *)
(***************************************************************************)
\* C33: the error a run returns keeps the category of the failure behind it:
\* a failed open of the search page surfaces as a Browser error, an I/O
\* failure while creating or writing the export file surfaces as an External
\* error and not as a Configuration error, and a cancellation is not reported
\* as a Browser failure.
C33_ErrorCategoryPreserved ==
    pc = "done" =>
        /\ ret.err = "browser" => peRet = "Browser"
        /\ (ioFailed /\ peRet # "nil") => peRet = "External"
        /\ ret.err = "ctx" => peRet # "Browser"

(***************************************************************************)
(* Order of the records                                                    *)
(***************************************************************************)
\* the record rows of the export file, in file order
RecordRows == SelectSeq(sink, LAMBDA r : r.kind = "record")

\* C34: in every state of a run the Results are ordered by discovery:
\* PageFound never decreases along the sequence and within a page Position
\* grows by exactly 1 from one record to the next; the rows of the export
\* file are the records in that same order.
C34_ResultsOrderedByDiscovery ==
    LET R == collection.Results
    IN  /\ \A i \in 1..(Len(R) - 1) :
               /\ R[i].PageFound <= R[i + 1].PageFound
               /\ R[i].PageFound = R[i + 1].PageFound =>
                      R[i + 1].Position = R[i].Position + 1
        /\ Len(RecordRows) <= Len(R)
        /\ \A i \in DOMAIN RecordRows : RecordRows[i] = RowOf(R[i])

\* two pages of two records each were exported
C34_Witness ==
    /\ pc = "done"
    /\ peRet = "nil"
    /\ Len(collection.Results) = 4
    /\ collection.Results[2].PageFound = 1 /\ collection.Results[2].Position = 2
    /\ collection.Results[3].PageFound = 2 /\ collection.Results[3].Position = 1
    /\ Len(RecordRows) = 4

(***************************************************************************)
(* Pages extracted                                                         *)
(***************************************************************************)
\* C35: the page indices Process has opened and extracted are at every moment
\* a prefix 1..k of 1..bound, 0 <= k <= bound, bound computed from the count the
\* label gave and the page limit; when the label reads 0 the bound is 0, no
\* page is extracted (the open first page included) and Process returns an
\* empty Collection with TotalPages = 0 and no error.
C35_ExtractedPagesFormPrefix ==
    /\ \E k \in 0..maxPagesToProcess : PagesExtracted = 1..k
    /\ PagesExtracted \subseteq openTried
    /\ pc \notin {"start", "open_initial", "estimate"} /\ openFailedAt # 1 =>
           /\ maxPagesToProcess = MaxPagesToProcess(totalResults, MaxPagesOpt)
           /\ maxPagesToProcess <= TotalPagesOf(totalResults)
    /\ (ProcessReturned /\ openFailedAt # 1 /\ totalResults = 0) =>
           /\ maxPagesToProcess = 0
           /\ pageLog = <<>>
           /\ collection.Results = <<>>
           /\ collection.TotalPages = 0
           /\ ret = ReturnFrom("collection", "none")

\* the label read "0 resultados": the run ended with only the first page opened
C35_Witness ==
    /\ pc = "done"
    /\ totalResults = 0
    /\ openTried = {1}
    /\ openFailedAt = 0
    /\ ret = ReturnFrom("collection", "none")
    /\ collection.TotalPages = 0

\* the page limit of 2 cut a longer result list: pages 1 and 2 extracted
C35_WitnessFull ==
    /\ ProcessReturned
    /\ MaxPagesOpt = 2
    /\ TotalPagesOf(totalResults) > 2
    /\ PagesExtracted = 1..2

(***************************************************************************)
(* One detail session per anchor                                           *)
(***************************************************************************)
\* the extractMetadataForResult calls that went on to Open a detail session
DetailOpensAttempted == SelectSeq(detail.hist, LAMBDA c : c.open # "guard")

\* C36: for every anchor of a listing page exactly one detail-session open is
\* attempted, anchors with an empty or missing href included: the record URL
\* is a non-empty absolute URL before enrichment, the empty-URL test of the
\* enricher never succeeds, and when the page is done the number of opens
\* attempted is its number of anchors.
C36_OneDetailOpenPerAnchor ==
    pc \in {"enrich_link", "enrich_ret"} =>
        /\ Len(detail.hist) = Len(results)
        /\ \A i \in DOMAIN results :
               /\ results[i].URL # <<>>
               /\ HasPrefix(results[i].URL, <<"h", "t", "t", "p">>)
               /\ detail.hist[i].url = results[i].URL
               /\ detail.hist[i].open \in DetailOpenOutcomes
        /\ Len(DetailOpensAttempted) = Len(results)
        /\ (pc = "enrich_ret" /\ ret.err = "none") =>
               Len(DetailOpensAttempted) = Len(fn.in)

\* a page of three anchors, the first without href and the second with an
\* empty one: three opens were attempted
C36_Witness ==
    /\ pc = "enrich_ret"
    /\ Len(fn.in) = 3
    /\ ~fn.in[1].hasHref
    /\ fn.in[2].hasHref /\ fn.in[2].href = <<>>
    /\ fn.in[3].href = <<"/", "f">>
    /\ Len(DetailOpensAttempted) = 3
    /\ results[1].URL = CapesBaseURL \o <<"/">>

(***************************************************************************)
(* Validation and URL construction                                         *)
(***************************************************************************)
\* C37: after any sequence of parameter changes and ValidateSearchParams
\* calls, BuildSearchURL returns a URL only if the most recent
\* ValidateSearchParams call succeeded; after a ValidateSearchParams call that
\* returned an error params.Valid is false and BuildSearchURL returns a
\* Configuration error and an empty URL.
C37_ValidationGatesURL ==
    /\ fn.build.err = "nil" => fn.validateErr = "nil"
    /\ fn.validateErr = "Configuration" => ~params.Valid
    /\ (fn.validateErr = "Configuration" /\ fn.build # NoBuild) =>
           fn.build = Built(<<>>, "Configuration")

(***************************************************************************)
(* Close and the next Open                                                 *)
(***************************************************************************)
\* C38: when RodBrowser.Close has returned, the session it was called on has
\* finished closing, a close that ran beyond the 5-second limit included: no
\* session is live after the call, and an Open that follows a Close starts
\* with no earlier session live.
C38_CloseCompletesBeforeOpen ==
    /\ [](\A k \in CallsOf("Close") : k = Len(browser.log) => browser.live = {})
    /\ [][\A k \in DOMAIN browser'.log \ DOMAIN browser.log :
              (k > 1 /\ browser'.log[k].op = "Open" /\ browser.log[k - 1].op = "Close")
                  => browser.live = {}]_vars

====
